---- MODULE Spec2Model ----
(***************************************************************************)
(* State-machine model of the two CPF font converters of the repository:   *)
(*   lib/EpdFont/scripts/fontconvert_bin.py   (converter "fb")             *)
(*   tools/font-converter/cpf_convert.py      (converter "cpf")            *)
(* A run resolves code points against a font stack, builds the coverage    *)
(* intervals, rasterizes and packs every glyph and writes the binary       *)
(* bundle.  The outline-font engine (freetype) is an external collaborator *)
(* and is represented by fixture faces: a character map, a glyph slot per  *)
(* code point and face-wide size metrics.                                  *)
(***************************************************************************)
EXTENDS Integers, Sequences, FiniteSets, TLC

VARIABLES
    converter,              \* "fb" | "cpf": which script runs
    font_stack,             \* sequence of faces, descending priority
    add_ints,               \* --additional-intervals pairs (fb only)
    opt_flag,               \* the bit-depth option is on the command line
    is2Bit,                 \* bit-depth selection (fb is2Bit, cpf use_2bit)
    size,                   \* requested size
    pc,                     \* position of the run in the script
    asserted,               \* record formats whose size assertion has passed
    unvalidated_intervals,  \* fb: merged requests
    intervals,              \* coverage intervals
    pos,                    \* glyph loop position <<interval index, code point>>
    all_glyphs_props,       \* glyph records, in emission order
    all_glyphs_data,        \* packed bitmaps, in emission order
    total_bitmap_size,
    advance_y, ascender, descender,
    opened,                 \* the output path has been opened for writing
    output,                 \* bytes written to the output path
    widx,                   \* index of the next table entry to write
    offset,                 \* running glyph index offset of the interval table
    emitted_cps,            \* code point of each glyph record, in emission order
    scan_pc, scan_req, scan_cmap, scan_fb, scan_cpf,
                            \* coverage scan of one request, applied on its own
    face_glyph,             \* per face of the stack: the code point whose glyph
                            \* is in face.glyph, NoGlyph before any load
    pack_pc, pack_bitmap, pack_2bit, packed_fb, packed_cpf,
                            \* glyph packing applied to one bitmap on its own
    run, first_output, first_pc,
                            \* invocation number; what the first invocation left
    round_pc, round_val, round_out,
                            \* metric rounding applied to one 26.6 value on its own
    merge_pc, merge_req, merge_out, merge_again
                            \* interval merge applied to one request list on its own

runVars == <<converter, font_stack, add_ints, opt_flag, is2Bit, size, pc,
             asserted, unvalidated_intervals, intervals, pos, all_glyphs_props,
             all_glyphs_data, total_bitmap_size, advance_y, ascender,
             descender, opened, output, widx, offset, emitted_cps, face_glyph>>
scanVars == <<scan_pc, scan_req, scan_cmap, scan_fb, scan_cpf>>
packVars == <<pack_pc, pack_bitmap, pack_2bit, packed_fb, packed_cpf>>
rerunVars == <<run, first_output, first_pc>>
roundVars == <<round_pc, round_val, round_out>>
mergeVars == <<merge_pc, merge_req, merge_out, merge_again>>
unitVars == <<roundVars, mergeVars>>
vars == <<runVars, scanVars, packVars, rerunVars, unitVars>>

(***************************************************************************)
(* Small helpers: Python integer operators used by the scripts.            *)
(***************************************************************************)
Max(a, b) == IF a >= b THEN a ELSE b

RECURSIVE Pow2(_)
Pow2(n) == IF n = 0 THEN 1 ELSE 2 * Pow2(n - 1)

\* v << n and v >> n on non-negative Python ints
Shl(v, n) == v * Pow2(n)
Shr(v, n) == v \div Pow2(n)

\* bitwise and / or of two non-negative ints, bit by bit
RECURSIVE BitAnd(_, _)
BitAnd(a, b) ==
    IF a = 0 \/ b = 0 THEN 0
    ELSE (IF a % 2 = 1 /\ b % 2 = 1 THEN 1 ELSE 0) + 2 * BitAnd(a \div 2, b \div 2)

RECURSIVE BitOr(_, _)
BitOr(a, b) ==
    IF a = 0 THEN b
    ELSE IF b = 0 THEN a
    ELSE (IF a % 2 = 1 \/ b % 2 = 1 THEN 1 ELSE 0) + 2 * BitOr(a \div 2, b \div 2)

\* TLC evaluates operator arguments lazily; a loop state is evaluated before
\* it is handed to the rest of the loop, so that long loops nest shallowly
Forced(v) == v = v

RECURSIVE SumSeq(_)
SumSeq(s) == IF s = <<>> THEN 0 ELSE Head(s) + SumSeq(Tail(s))

\* math.floor(val / 64) and math.ceil(val / 64)
\* faulty variant: rounds toward zero
norm_floor_Truncating(val) == IF val >= 0 THEN val \div 64 ELSE -((-val) \div 64)

norm_floor(val) == val \div 64
norm_ceil(val) == -((-val) \div 64)

\* the line metrics of the header, from the reference face's size metrics
LineMetrics(fs) ==
    [advance_y |-> norm_ceil(fs.height),
     ascender |-> norm_ceil(fs.ascender),
     descender |-> norm_floor(fs.descender)]

(***************************************************************************)
(* struct: format strings are sequences of format characters.              *)
(***************************************************************************)
\* faulty variant: the byte-order mark is big-endian
GLYPH_STRUCT_BigEndian == <<">", "B", "B", "B", "x", "h", "h", "H", "x", "x", "I">>
GLYPH_STRUCT == <<"<", "B", "B", "B", "x", "h", "h", "H", "x", "x", "I">>
GLYPH_FMT == <<"<", "B", "B", "B", "x", "h", "h", "H", "x", "x", "I">>
INTERVAL_FMT == <<"<", "I", "I", "I">>
\* faulty variant: the version byte of the magic is missing
MAGIC_NoVersion == <<67, 80, 70>>
MAGIC == <<67, 80, 70, 1>>      \* b"CPF\x01"

\* bytes one format character occupies
CodeSize(c) ==
    CASE c \in {"<", ">"} -> 0
      [] c \in {"B", "b", "x"} -> 1
      [] c \in {"h", "H"} -> 2
      [] c \in {"i", "I"} -> 4

RECURSIVE calcsize(_)
calcsize(fmt) == IF fmt = <<>> THEN 0 ELSE CodeSize(Head(fmt)) + calcsize(Tail(fmt))

\* faulty variant: no range check, an oversized value is silently truncated
Fits_Unchecked(c, v) == c \in {"B", "b", "H", "h", "I", "i"}

\* struct.pack raises struct.error when a value is outside its field's range
Fits(c, v) ==
    CASE c = "B" -> v >= 0 /\ v <= 255
      [] c = "b" -> v >= -128 /\ v <= 127
      [] c = "H" -> v >= 0 /\ v <= 65535
      [] c = "h" -> v >= -32768 /\ v <= 32767
      [] c = "I" -> v >= 0 /\ v \div 65536 <= 65535
      [] c = "i" -> v \div 65536 >= -32768 /\ v \div 65536 <= 32767

\* n bytes of v, two's complement, least significant byte first
LittleEndian(v, n) == [k \in 1..n |-> (v \div Pow2(8 * (k - 1))) % 256]
BigEndian(v, n) == [k \in 1..n |-> (v \div Pow2(8 * (n - k))) % 256]

PackField(order, c, v) ==
    IF order = "<" THEN LittleEndian(v, CodeSize(c)) ELSE BigEndian(v, CodeSize(c))

\* fmt[i..] applied to args[j..]; "x" is a zero pad byte and takes no argument
RECURSIVE PackFrom(_, _, _, _)
PackFrom(fmt, i, args, j) ==
    IF i > Len(fmt) THEN <<>>
    ELSE IF fmt[i] = "x" THEN <<0>> \o PackFrom(fmt, i + 1, args, j)
    ELSE PackField(fmt[1], fmt[i], args[j]) \o PackFrom(fmt, i + 1, args, j + 1)

RECURSIVE FitsFrom(_, _, _, _)
FitsFrom(fmt, i, args, j) ==
    IF i > Len(fmt) THEN j = Len(args) + 1
    ELSE IF fmt[i] = "x" THEN FitsFrom(fmt, i + 1, args, j)
    ELSE j <= Len(args) /\ Fits(fmt[i], args[j]) /\ FitsFrom(fmt, i + 1, args, j + 1)

\* struct.pack(fmt, *args): the bytes, defined when StructFits holds
StructPack(fmt, args) == PackFrom(fmt, 2, args, 1)
StructFits(fmt, args) == FitsFrom(fmt, 2, args, 1)

(***************************************************************************)
(* Glyph rasterizer / quantizer.  A bitmap is the glyph slot's             *)
(* [width, rows, pitch, buffer]; buffer is bitmap.buffer, rows*pitch bytes. *)
(* Loops over a range lo..hi are folded left to right, the range being     *)
(* split in halves; the loop state is [px, out].                           *)
(***************************************************************************)

\* ---- fontconvert_bin.py, lines 94-106: 4-bit intermediate ----
FB_P4gStep(st, i, v, width) ==
    LET x == i % width
        a == IF x % 2 = 0
             THEN [px |-> Shr(v, 4), out |-> st.out]
             ELSE [px |-> 0, out |-> Append(st.out, BitOr(st.px, BitAnd(v, 240)))]
    IN  IF x = width - 1 /\ width % 2 > 0
        THEN [px |-> 0, out |-> Append(a.out, a.px)]
        ELSE a

RECURSIVE FB_P4gLoop(_, _, _, _, _)
FB_P4gLoop(st, lo, hi, buffer, width) ==
    IF lo > hi THEN st
    ELSE IF lo = hi THEN FB_P4gStep(st, lo, buffer[lo + 1], width)
    ELSE LET mid == (lo + hi) \div 2
             left == FB_P4gLoop(st, lo, mid, buffer, width)
         IN  IF Forced(left) THEN FB_P4gLoop(left, mid + 1, hi, buffer, width) ELSE st

FB_pixels4g(bitmap) ==
    FB_P4gLoop([px |-> 0, out |-> <<>>], 0, Len(bitmap.buffer) - 1,
               bitmap.buffer, bitmap.width).out

\* faulty variant: a level is reached only above its threshold
FB_Pack2bStep_Strict(st, k, pixels4g, width) ==
    LET y == k \div width
        x == k % width
        pitch == (width \div 2) + (width % 2)
        px1 == Shl(st.px, 2)
        bm0 == pixels4g[y * pitch + (x \div 2) + 1]
        bm == BitAnd(Shr(bm0, (x % 2) * 4), 15)
        px2 == IF bm > 12 THEN px1 + 3
               ELSE IF bm > 8 THEN px1 + 2
               ELSE IF bm > 4 THEN px1 + 1
               ELSE px1
    IN  IF (y * width + x) % 4 = 3
        THEN [px |-> 0, out |-> Append(st.out, px2)]
        ELSE [px |-> px2, out |-> st.out]

\* ---- fontconvert_bin.py, lines 108-126: 2-bit packing ----
FB_Pack2bStep(st, k, pixels4g, width) ==
    LET y == k \div width
        x == k % width
        pitch == (width \div 2) + (width % 2)
        px1 == Shl(st.px, 2)
        bm0 == pixels4g[y * pitch + (x \div 2) + 1]
        bm == BitAnd(Shr(bm0, (x % 2) * 4), 15)
        px2 == IF bm >= 12 THEN px1 + 3
               ELSE IF bm >= 8 THEN px1 + 2
               ELSE IF bm >= 4 THEN px1 + 1
               ELSE px1
    IN  IF (y * width + x) % 4 = 3
        THEN [px |-> 0, out |-> Append(st.out, px2)]
        ELSE [px |-> px2, out |-> st.out]

RECURSIVE FB_Pack2bLoop(_, _, _, _, _)
FB_Pack2bLoop(st, lo, hi, pixels4g, width) ==
    IF lo > hi THEN st
    ELSE IF lo = hi THEN FB_Pack2bStep(st, lo, pixels4g, width)
    ELSE LET mid == (lo + hi) \div 2
             left == FB_Pack2bLoop(st, lo, mid, pixels4g, width)
         IN  IF Forced(left) THEN FB_Pack2bLoop(left, mid + 1, hi, pixels4g, width) ELSE st

\* faulty variant: the final partial byte is not shifted to the left
FB_pixels2b_NoShift(bitmap) ==
    LET n == bitmap.width * bitmap.rows
        st == FB_Pack2bLoop([px |-> 0, out |-> <<>>], 0, n - 1,
                            FB_pixels4g(bitmap), bitmap.width)
    IN  IF n % 4 # 0
        THEN Append(st.out, st.px)
        ELSE st.out

FB_pixels2b(bitmap) ==
    LET n == bitmap.width * bitmap.rows
        st == FB_Pack2bLoop([px |-> 0, out |-> <<>>], 0, n - 1,
                            FB_pixels4g(bitmap), bitmap.width)
    IN  IF n % 4 # 0
        THEN Append(st.out, Shl(st.px, (4 - (n % 4)) * 2))
        ELSE st.out

\* faulty variant: a byte is also flushed at the end of every row
FB_Pack1bStep_RowFlush(st, k, pixels4g, width) ==
    LET y == k \div width
        x == k % width
        pitch == (width \div 2) + (width % 2)
        px1 == Shl(st.px, 1)
        bm == pixels4g[y * pitch + (x \div 2) + 1]
        ink == \/ (BitAnd(x, 1) = 0 /\ BitAnd(bm, 14) > 0)
               \/ (BitAnd(x, 1) = 1 /\ BitAnd(bm, 224) > 0)
        px2 == px1 + (IF ink THEN 1 ELSE 0)
    IN  IF (y * width + x) % 8 = 7 \/ x = width - 1
        THEN [px |-> 0, out |-> Append(st.out, px2)]
        ELSE [px |-> px2, out |-> st.out]

\* ---- fontconvert_bin.py, lines 127-142: 1-bit packing ----
FB_Pack1bStep(st, k, pixels4g, width) ==
    LET y == k \div width
        x == k % width
        pitch == (width \div 2) + (width % 2)
        px1 == Shl(st.px, 1)
        bm == pixels4g[y * pitch + (x \div 2) + 1]
        ink == \/ (BitAnd(x, 1) = 0 /\ BitAnd(bm, 14) > 0)
               \/ (BitAnd(x, 1) = 1 /\ BitAnd(bm, 224) > 0)
        px2 == px1 + (IF ink THEN 1 ELSE 0)
    IN  IF (y * width + x) % 8 = 7
        THEN [px |-> 0, out |-> Append(st.out, px2)]
        ELSE [px |-> px2, out |-> st.out]

RECURSIVE FB_Pack1bLoop(_, _, _, _, _)
FB_Pack1bLoop(st, lo, hi, pixels4g, width) ==
    IF lo > hi THEN st
    ELSE IF lo = hi THEN FB_Pack1bStep(st, lo, pixels4g, width)
    ELSE LET mid == (lo + hi) \div 2
             left == FB_Pack1bLoop(st, lo, mid, pixels4g, width)
         IN  IF Forced(left) THEN FB_Pack1bLoop(left, mid + 1, hi, pixels4g, width) ELSE st

FB_pixelsbw(bitmap) ==
    LET n == bitmap.width * bitmap.rows
        st == FB_Pack1bLoop([px |-> 0, out |-> <<>>], 0, n - 1,
                            FB_pixels4g(bitmap), bitmap.width)
    IN  IF n % 8 # 0
        THEN Append(st.out, Shl(st.px, 8 - (n % 8)))
        ELSE st.out

\* fontconvert_bin.py, lines 108-144: packed = bytes(pixels)
FB_packed(bitmap, twoBit) == IF twoBit THEN FB_pixels2b(bitmap) ELSE FB_pixelsbw(bitmap)

(***************************************************************************)
(* cpf_convert.py rasterizers: each builds its own 4-bit intermediate.     *)
(***************************************************************************)

\* faulty variant: only the top 3 bits of a pixel are kept
R2_P4gStep_Shift5(st, i, v, w) ==
    LET x == i % w
        a == IF x % 2 = 0
             THEN [px |-> Shr(v, 5), out |-> st.out]
             ELSE [px |-> 0, out |-> Append(st.out, BitOr(st.px, BitAnd(v, 240)))]
    IN  IF x = w - 1 /\ w % 2 > 0
        THEN [px |-> 0, out |-> Append(a.out, a.px)]
        ELSE a

\* ---- cpf_convert.py, lines 82-95 (rasterize_glyph_2bit) ----
R2_P4gStep(st, i, v, w) ==
    LET x == i % w
        a == IF x % 2 = 0
             THEN [px |-> Shr(v, 4), out |-> st.out]
             ELSE [px |-> 0, out |-> Append(st.out, BitOr(st.px, BitAnd(v, 240)))]
    IN  IF x = w - 1 /\ w % 2 > 0
        THEN [px |-> 0, out |-> Append(a.out, a.px)]
        ELSE a

RECURSIVE R2_P4gLoop(_, _, _, _, _)
R2_P4gLoop(st, lo, hi, buf, w) ==
    IF lo > hi THEN st
    ELSE IF lo = hi THEN R2_P4gStep(st, lo, buf[lo + 1], w)
    ELSE LET mid == (lo + hi) \div 2
             left == R2_P4gLoop(st, lo, mid, buf, w)
         IN  IF Forced(left) THEN R2_P4gLoop(left, mid + 1, hi, buf, w) ELSE st

\* faulty variant: a byte is also flushed at the end of every row
R2_PackStep_RowFlush(st, k, pixels4g, w) ==
    LET y == k \div w
        x == k % w
        pitch == (w \div 2) + (w % 2)
        px1 == Shl(st.px, 2)
        bm0 == pixels4g[y * pitch + (x \div 2) + 1]
        bm == BitAnd(Shr(bm0, (x % 2) * 4), 15)
        px2 == IF bm >= 12 THEN px1 + 3
               ELSE IF bm >= 8 THEN px1 + 2
               ELSE IF bm >= 4 THEN px1 + 1
               ELSE px1
    IN  IF (y * w + x) % 4 = 3 \/ x = w - 1
        THEN [px |-> 0, out |-> Append(st.out, px2)]
        ELSE [px |-> px2, out |-> st.out]

\* ---- cpf_convert.py, lines 97-114 ----
R2_PackStep(st, k, pixels4g, w) ==
    LET y == k \div w
        x == k % w
        pitch == (w \div 2) + (w % 2)
        px1 == Shl(st.px, 2)
        bm0 == pixels4g[y * pitch + (x \div 2) + 1]
        bm == BitAnd(Shr(bm0, (x % 2) * 4), 15)
        px2 == IF bm >= 12 THEN px1 + 3
               ELSE IF bm >= 8 THEN px1 + 2
               ELSE IF bm >= 4 THEN px1 + 1
               ELSE px1
    IN  IF (y * w + x) % 4 = 3
        THEN [px |-> 0, out |-> Append(st.out, px2)]
        ELSE [px |-> px2, out |-> st.out]

RECURSIVE R2_PackLoop(_, _, _, _, _)
R2_PackLoop(st, lo, hi, pixels4g, w) ==
    IF lo > hi THEN st
    ELSE IF lo = hi THEN R2_PackStep(st, lo, pixels4g, w)
    ELSE LET mid == (lo + hi) \div 2
             left == R2_PackLoop(st, lo, mid, pixels4g, w)
         IN  IF Forced(left) THEN R2_PackLoop(left, mid + 1, hi, pixels4g, w) ELSE st

\* ---- cpf_convert.py, lines 75-119 ----
\* faulty variant: the final partial byte is not shifted to the left
rasterize_glyph_2bit_NoShift(bitmap) ==
    LET w == bitmap.width
        rows == bitmap.rows
        buf == bitmap.buffer
        pixels4g == R2_P4gLoop([px |-> 0, out |-> <<>>], 0, Len(buf) - 1, buf, w).out
        st == R2_PackLoop([px |-> 0, out |-> <<>>], 0, w * rows - 1, pixels4g, w)
    IN  IF (w * rows) % 4 # 0
        THEN Append(st.out, st.px)
        ELSE st.out

rasterize_glyph_2bit(bitmap) ==
    LET w == bitmap.width
        rows == bitmap.rows
        buf == bitmap.buffer
        pixels4g == R2_P4gLoop([px |-> 0, out |-> <<>>], 0, Len(buf) - 1, buf, w).out
        st == R2_PackLoop([px |-> 0, out |-> <<>>], 0, w * rows - 1, pixels4g, w)
    IN  IF (w * rows) % 4 # 0
        THEN Append(st.out, Shl(st.px, (4 - ((w * rows) % 4)) * 2))
        ELSE st.out

\* faulty variant: a byte is closed at the end of every row, odd width or not
R1_P4gStep_AlwaysPad(st, i, v, w) ==
    LET x == i % w
        a == IF x % 2 = 0
             THEN [px |-> Shr(v, 4), out |-> st.out]
             ELSE [px |-> 0, out |-> Append(st.out, BitOr(st.px, BitAnd(v, 240)))]
    IN  IF x = w - 1
        THEN [px |-> 0, out |-> Append(a.out, a.px)]
        ELSE a

\* ---- cpf_convert.py, lines 129-142 (rasterize_glyph_1bit) ----
R1_P4gStep(st, i, v, w) ==
    LET x == i % w
        a == IF x % 2 = 0
             THEN [px |-> Shr(v, 4), out |-> st.out]
             ELSE [px |-> 0, out |-> Append(st.out, BitOr(st.px, BitAnd(v, 240)))]
    IN  IF x = w - 1 /\ w % 2 > 0
        THEN [px |-> 0, out |-> Append(a.out, a.px)]
        ELSE a

RECURSIVE R1_P4gLoop(_, _, _, _, _)
R1_P4gLoop(st, lo, hi, buf, w) ==
    IF lo > hi THEN st
    ELSE IF lo = hi THEN R1_P4gStep(st, lo, buf[lo + 1], w)
    ELSE LET mid == (lo + hi) \div 2
             left == R1_P4gLoop(st, lo, mid, buf, w)
         IN  IF Forced(left) THEN R1_P4gLoop(left, mid + 1, hi, buf, w) ELSE st

\* faulty variant: any bit of the nibble counts as ink
R1_PackStep_AnyBit(st, k, pixels4g, w) ==
    LET y == k \div w
        x == k % w
        pitch == (w \div 2) + (w % 2)
        px1 == Shl(st.px, 1)
        bm == pixels4g[y * pitch + (x \div 2) + 1]
        ink == \/ (BitAnd(x, 1) = 0 /\ BitAnd(bm, 15) > 0)
               \/ (BitAnd(x, 1) = 1 /\ BitAnd(bm, 240) > 0)
        px2 == px1 + (IF ink THEN 1 ELSE 0)
    IN  IF (y * w + x) % 8 = 7
        THEN [px |-> 0, out |-> Append(st.out, px2)]
        ELSE [px |-> px2, out |-> st.out]

\* ---- cpf_convert.py, lines 144-155 ----
R1_PackStep(st, k, pixels4g, w) ==
    LET y == k \div w
        x == k % w
        pitch == (w \div 2) + (w % 2)
        px1 == Shl(st.px, 1)
        bm == pixels4g[y * pitch + (x \div 2) + 1]
        ink == \/ (BitAnd(x, 1) = 0 /\ BitAnd(bm, 14) > 0)
               \/ (BitAnd(x, 1) = 1 /\ BitAnd(bm, 224) > 0)
        px2 == px1 + (IF ink THEN 1 ELSE 0)
    IN  IF (y * w + x) % 8 = 7
        THEN [px |-> 0, out |-> Append(st.out, px2)]
        ELSE [px |-> px2, out |-> st.out]

RECURSIVE R1_PackLoop(_, _, _, _, _)
R1_PackLoop(st, lo, hi, pixels4g, w) ==
    IF lo > hi THEN st
    ELSE IF lo = hi THEN R1_PackStep(st, lo, pixels4g, w)
    ELSE LET mid == (lo + hi) \div 2
             left == R1_PackLoop(st, lo, mid, pixels4g, w)
         IN  IF Forced(left) THEN R1_PackLoop(left, mid + 1, hi, pixels4g, w) ELSE st

\* ---- cpf_convert.py, lines 122-160 ----
rasterize_glyph_1bit(bitmap) ==
    LET w == bitmap.width
        rows == bitmap.rows
        buf == bitmap.buffer
        pixels4g == R1_P4gLoop([px |-> 0, out |-> <<>>], 0, Len(buf) - 1, buf, w).out
        st == R1_PackLoop([px |-> 0, out |-> <<>>], 0, w * rows - 1, pixels4g, w)
    IN  IF (w * rows) % 8 # 0
        THEN Append(st.out, Shl(st.px, 8 - ((w * rows) % 8)))
        ELSE st.out

(***************************************************************************)
(* The outline-font engine.  A face is [cmap, variant]: cmap is the set of *)
(* code points it defines; variant selects the glyphs and metrics it       *)
(* renders.  Glyph slots and size metrics are fixtures of the engine.      *)
(***************************************************************************)

\* face.get_char_index(code_point): 0 when the face has no glyph for it
get_char_index(face, code_point) ==
    IF code_point \in face.cmap THEN code_point + 1 ELSE 0

\* face.glyph after face.load_glyph(index, FT_LOAD_RENDER)
GlyphSlot(face, code_point) ==
    IF face.variant = 1 THEN
        CASE code_point = \h41 ->
                [width |-> 3, rows |-> 2, pitch |-> 3,
                 buffer |-> <<0, 64, 128, 192, 255, 32>>,
                 advance_x |-> 200, bitmap_left |-> 0, bitmap_top |-> 2]
          [] code_point = \h7C ->
                [width |-> 1, rows |-> 3, pitch |-> 1,
                 buffer |-> <<255, 255, 255>>,
                 advance_x |-> 100, bitmap_left |-> 1, bitmap_top |-> 3]
          [] code_point = \h17F ->
                [width |-> 0, rows |-> 0, pitch |-> 0,
                 buffer |-> <<>>,
                 advance_x |-> 64, bitmap_left |-> 0, bitmap_top |-> 0]
          [] code_point = \h20AC ->
                [width |-> 2, rows |-> 2, pitch |-> 2,
                 buffer |-> <<16, 240, 100, 7>>,
                 advance_x |-> 130, bitmap_left |-> -2, bitmap_top |-> 300]
          [] code_point = \h2212 ->
                [width |-> 3, rows |-> 3, pitch |-> 3,
                 buffer |-> <<255, 0, 90, 33, 31, 200, 128, 127, 64>>,
                 advance_x |-> 128, bitmap_left |-> 0, bitmap_top |-> -1]
          [] OTHER ->
                [width |-> 1, rows |-> 1, pitch |-> 1,
                 buffer |-> <<255>>,
                 advance_x |-> 64, bitmap_left |-> 0, bitmap_top |-> 1]
    ELSE
        [width |-> 1, rows |-> 1, pitch |-> 1,
         buffer |-> <<128>>,
         advance_x |-> IF code_point = \h180 THEN 16384 ELSE 70,
         bitmap_left |-> 0, bitmap_top |-> 1]

\* face.size (26.6 fixed point) after set_char_size(size << 6, size << 6, 150, 150)
FaceSize(face, sz) ==
    [height |-> sz * 160 + face.variant,
     ascender |-> sz * 128 + 1,
     descender |-> -(sz * 32) - 1]

(***************************************************************************)
(* Font stack resolver, fontconvert_bin.py lines 54-60.  The result is the *)
(* position in the stack of the face returned, 0 for None.                 *)
(***************************************************************************)
\* faulty variant: a later face that defines the code point wins
RECURSIVE LoadGlyphFrom_LastWins(_, _, _)
LoadGlyphFrom_LastWins(stack, k, code_point) ==
    IF k > Len(stack) THEN 0
    ELSE LET later == LoadGlyphFrom_LastWins(stack, k + 1, code_point)
         IN  IF later # 0 THEN later
             ELSE IF get_char_index(stack[k], code_point) > 0 THEN k
             ELSE 0

RECURSIVE LoadGlyphFrom(_, _, _)
LoadGlyphFrom(stack, k, code_point) ==
    IF k > Len(stack) THEN 0
    ELSE IF get_char_index(stack[k], code_point) > 0 THEN k
    ELSE LoadGlyphFrom(stack, k + 1, code_point)

load_glyph(stack, code_point) == LoadGlyphFrom(stack, 1, code_point)

\* a face whose glyph slot has not been loaded yet
NoGlyph == -1

\* line 58: face.load_glyph(glyph_index, FT_LOAD_RENDER) on the face returned,
\* glyphs being the code point held by each face's glyph slot
RenderOn(glyphs, k, code_point) ==
    IF k = 0 THEN glyphs ELSE [glyphs EXCEPT ![k] = code_point]

(***************************************************************************)
(* Requested intervals.                                                    *)
(***************************************************************************)
\* fontconvert_bin.py lines 28-42
FB_intervals ==
    << <<\h0000, \h007F>>, <<\h0080, \h00FF>>, <<\h0100, \h017F>>,
       <<\h2000, \h206F>>, <<\h2010, \h203A>>, <<\h2040, \h205F>>,
       <<\h20A0, \h20CF>>, <<\h0300, \h036F>>, <<\h0400, \h04FF>>,
       <<\h2070, \h209F>>, <<\h2200, \h22FF>>, <<\h2190, \h21FF>>,
       <<\hFFFD, \hFFFD>> >>

\* cpf_convert.py lines 48-60
DEFAULT_INTERVALS ==
    << <<\h0000, \h007F>>, <<\h0080, \h00FF>>, <<\h0100, \h017F>>,
       <<\h0300, \h036F>>, <<\h0400, \h04FF>>, <<\h2000, \h206F>>,
       <<\h2070, \h209F>>, <<\h2190, \h21FF>>, <<\h2200, \h22FF>>,
       <<\h20A0, \h20CF>>, <<\hFFFD, \hFFFD>> >>

\* Python's ordering of 2-tuples
TupleLess(a, b) == a[1] < b[1] \/ (a[1] = b[1] /\ a[2] < b[2])

RECURSIVE InsertSorted(_, _)
InsertSorted(s, t) ==
    IF s = <<>> THEN <<t>>
    ELSE IF TupleLess(t, Head(s)) THEN <<t>> \o s
    ELSE <<Head(s)>> \o InsertSorted(Tail(s), t)

\* sorted(list of tuples)
RECURSIVE sorted(_)
sorted(s) ==
    IF s = <<>> THEN <<>>
    ELSE InsertSorted(sorted(SubSeq(s, 1, Len(s) - 1)), s[Len(s)])

(***************************************************************************)
(* Coverage builder of fontconvert_bin.py.                                 *)
(***************************************************************************)
\* faulty variant: a merged request ends where the later request ends
MergeStep_LaterEnd(unvalidated, iv) ==
    IF Len(unvalidated) > 0 /\ iv[1] + 1 <= unvalidated[Len(unvalidated)][2]
    THEN [unvalidated EXCEPT ![Len(unvalidated)] =
              <<unvalidated[Len(unvalidated)][1], iv[2]>>]
    ELSE Append(unvalidated, iv)

\* lines 65-69: one iteration of the merge loop
MergeStep(unvalidated, iv) ==
    IF Len(unvalidated) > 0 /\ iv[1] + 1 <= unvalidated[Len(unvalidated)][2]
    THEN [unvalidated EXCEPT ![Len(unvalidated)] =
              <<unvalidated[Len(unvalidated)][1],
                Max(unvalidated[Len(unvalidated)][2], iv[2])>>]
    ELSE Append(unvalidated, iv)

RECURSIVE MergeLoop(_, _, _)
MergeLoop(unvalidated, unmerged, k) ==
    IF k > Len(unmerged) THEN unvalidated
    ELSE LET nxt == MergeStep(unvalidated, unmerged[k])
         IN  IF Forced(nxt) THEN MergeLoop(nxt, unmerged, k + 1) ELSE unvalidated

\* lines 62-69
MergeIntervals(requested) == MergeLoop(<<>>, sorted(requested), 1)

\* lines 74-78: one code point of the scan; the loop state is
\* [start, out, glyph], glyph being the glyph slots of the faces
FB_ScanStep(st, code_point, stack) ==
    LET k == load_glyph(stack, code_point)
    IN  IF k = 0
        THEN [start |-> code_point + 1,
              out |-> IF st.start < code_point
                      THEN Append(st.out, <<st.start, code_point - 1>>)
                      ELSE st.out,
              glyph |-> st.glyph]
        ELSE [st EXCEPT !.glyph = RenderOn(st.glyph, k, code_point)]

RECURSIVE FB_ScanLoop(_, _, _, _)
FB_ScanLoop(st, lo, hi, stack) ==
    IF lo > hi THEN st
    ELSE IF lo = hi THEN FB_ScanStep(st, lo, stack)
    ELSE LET mid == (lo + hi) \div 2
             left == FB_ScanLoop(st, lo, mid, stack)
         IN  IF Forced(left) THEN FB_ScanLoop(left, mid + 1, hi, stack) ELSE st

\* lines 72-80: the scan of one merged request; acc is [out, glyph], the
\* intervals found so far and the glyph slots of the faces
FB_ScanInterval(acc, iv, stack) ==
    LET st == FB_ScanLoop([start |-> iv[1], out |-> acc.out, glyph |-> acc.glyph],
                          iv[1], iv[2], stack)
    IN  [out |-> IF st.start # iv[2] + 1
                 THEN Append(st.out, <<st.start, iv[2]>>)
                 ELSE st.out,
         glyph |-> st.glyph]

RECURSIVE FB_ScanAll(_, _, _, _)
FB_ScanAll(acc, reqs, k, stack) ==
    IF k > Len(reqs) THEN acc
    ELSE LET nxt == FB_ScanInterval(acc, reqs[k], stack)
         IN  IF Forced(nxt) THEN FB_ScanAll(nxt, reqs, k + 1, stack) ELSE acc

(***************************************************************************)
(* build_intervals of cpf_convert.py, lines 163-178.                       *)
(***************************************************************************)
\* faulty variant: the run start is not moved past the missing code point
BI_Step_StartNotAdvanced(st, cp, face) ==
    IF get_char_index(face, cp) = 0
    THEN [start |-> cp,
          out |-> IF st.start < cp
                  THEN Append(st.out, <<st.start, cp - 1>>)
                  ELSE st.out]
    ELSE st

BI_Step(st, cp, face) ==
    IF get_char_index(face, cp) = 0
    THEN [start |-> cp + 1,
          out |-> IF st.start < cp
                  THEN Append(st.out, <<st.start, cp - 1>>)
                  ELSE st.out]
    ELSE st

RECURSIVE BI_Loop(_, _, _, _)
BI_Loop(st, lo, hi, face) ==
    IF lo > hi THEN st
    ELSE IF lo = hi THEN BI_Step(st, lo, face)
    ELSE LET mid == (lo + hi) \div 2
             left == BI_Loop(st, lo, mid, face)
         IN  IF Forced(left) THEN BI_Loop(left, mid + 1, hi, face) ELSE st

BI_Interval(result, iv, face) ==
    LET st == BI_Loop([start |-> iv[1], out |-> result], iv[1], iv[2], face)
    IN  IF st.start <= iv[2] THEN Append(st.out, <<st.start, iv[2]>>) ELSE st.out

RECURSIVE BI_All(_, _, _, _)
BI_All(result, requested, k, face) ==
    IF k > Len(requested) THEN result
    ELSE LET nxt == BI_Interval(result, requested[k], face)
         IN  IF Forced(nxt) THEN BI_All(nxt, requested, k + 1, face) ELSE result

build_intervals(face, requested) == BI_All(<<>>, requested, 1, face)

(***************************************************************************)
(* Inputs of a run.                                                        *)
(***************************************************************************)
MaxStack == 2       \* faces in the font stack
MaxAddInts == 1     \* --additional-intervals options on the command line

\* code points a primary face may or may not define
Probe == {\h41, \h7C, \h17F, \h20AC, \h2212}
\* two code points on either side of the boundary between two requests
Adjacent == {\hFF, \h100}
PrimaryFaces ==
    [cmap : (SUBSET Probe) \cup {Adjacent, Adjacent \cup {\h7C}}, variant : {1}]
FallbackFace == [cmap |-> {\h41, \h7C, \h180}, variant |-> 2]
\* min,max pairs given with --additional-intervals
AddChoices == { <<\h17F, \h180>>, <<\h3000, \h2FFE>> }
Sizes == {12, 256}

RECURSIVE SeqsUpTo(_, _)
SeqsUpTo(S, n) ==
    IF n = 0 THEN {<<>>}
    ELSE LET shorter == SeqsUpTo(S, n - 1)
         IN  shorter \cup {Append(q, e) : q \in shorter, e \in S}

(***************************************************************************)
(* The nested loop "for i_start, i_end in intervals: for code_point in     *)
(* range(i_start, i_end + 1)": positions are <<interval index, code point>>,*)
(* <<0, 0>> once the loop is exhausted.                                    *)
(***************************************************************************)
LoopEnd == <<0, 0>>

RECURSIVE FirstPosFrom(_, _)
FirstPosFrom(ivs, k) ==
    IF k > Len(ivs) THEN LoopEnd
    ELSE IF ivs[k][1] <= ivs[k][2] THEN <<k, ivs[k][1]>>
    ELSE FirstPosFrom(ivs, k + 1)

NextPos(ivs, p) ==
    IF p[2] < ivs[p[1]][2] THEN <<p[1], p[2] + 1>> ELSE FirstPosFrom(ivs, p[1] + 1)

(***************************************************************************)
(* Initial state: the command line has been given, nothing has run.        *)
(***************************************************************************)
ScanIdle ==
    /\ scan_pc = "idle"
    /\ scan_req = <<0, 0>>
    /\ scan_cmap = {}
    /\ scan_fb = <<>>
    /\ scan_cpf = <<>>

EmptyBitmap == [width |-> 0, rows |-> 0, pitch |-> 0, buffer |-> <<>>]

PackIdle ==
    /\ pack_pc = "idle"
    /\ pack_bitmap = EmptyBitmap
    /\ pack_2bit = FALSE
    /\ packed_fb = <<>>
    /\ packed_cpf = <<>>

\* no value is being rounded, no request list is being merged
RoundIdle ==
    /\ round_pc = "idle"
    /\ round_val = 0
    /\ round_out = <<>>

MergeIdle ==
    /\ merge_pc = "idle"
    /\ merge_req = <<>>
    /\ merge_out = <<>>
    /\ merge_again = <<>>

UnitIdle == RoundIdle /\ MergeIdle

\* the first invocation, nothing left by an earlier one
FirstRun ==
    /\ run = 1
    /\ first_output = <<>>
    /\ first_pc = "start"

RunFresh ==
    /\ pc = "start"
    /\ is2Bit = FALSE
    /\ asserted = {}
    /\ unvalidated_intervals = <<>>
    /\ intervals = <<>>
    /\ pos = LoopEnd
    /\ all_glyphs_props = <<>>
    /\ all_glyphs_data = <<>>
    /\ total_bitmap_size = 0
    /\ advance_y = 0
    /\ ascender = 0
    /\ descender = 0
    /\ opened = FALSE
    /\ output = <<>>
    /\ widx = 0
    /\ offset = 0
    /\ emitted_cps = <<>>

Init ==
    /\ converter \in {"fb", "cpf"}
    /\ \E primary \in PrimaryFaces :
         \E rest \in SeqsUpTo({FallbackFace}, MaxStack - 1) :
            font_stack = IF converter = "fb" THEN <<primary>> \o rest ELSE <<primary>>
    /\ add_ints \in IF converter = "fb" THEN SeqsUpTo(AddChoices, MaxAddInts) ELSE {<<>>}
    /\ opt_flag \in BOOLEAN
    /\ size \in Sizes
    /\ RunFresh
    /\ face_glyph = [k \in 1..Len(font_stack) |-> NoGlyph]
    /\ ScanIdle
    /\ PackIdle
    /\ FirstRun
    /\ UnitIdle

inputs == <<converter, font_stack, add_ints, opt_flag, size>>
metrics == <<advance_y, ascender, descender>>
glyphTables == <<all_glyphs_props, all_glyphs_data, total_bitmap_size, emitted_cps>>

(***************************************************************************)
(* fontconvert_bin.py, one action per step of the script.  A step whose    *)
(* code raises ends the run at pc = "aborted"; the "with" block closes the *)
(* file with the bytes written so far.                                     *)
(***************************************************************************)

\* lines 11-25: parse the arguments, assert the glyph record size
FB_Start ==
    /\ converter = "fb" /\ pc = "start"
    /\ is2Bit' = opt_flag
    /\ IF calcsize(GLYPH_STRUCT) = 16
       THEN asserted' = asserted \cup {"glyph"} /\ pc' = "merge"
       ELSE asserted' = asserted /\ pc' = "aborted"
    /\ UNCHANGED <<inputs, unvalidated_intervals, intervals, pos, glyphTables,
                   metrics, opened, output, widx, offset, scanVars,
                   face_glyph, packVars, rerunVars, unitVars>>

\* lines 44-46, 62-69: sort and merge the requested intervals
FB_Merge ==
    /\ converter = "fb" /\ pc = "merge"
    /\ unvalidated_intervals' = MergeIntervals(FB_intervals \o add_ints)
    /\ pc' = "scan"
    /\ UNCHANGED <<inputs, is2Bit, asserted, intervals, pos, glyphTables,
                   metrics, opened, output, widx, offset, scanVars,
                   face_glyph, packVars, rerunVars, unitVars>>

\* lines 71-87: coverage scan, then the glyph loop is entered
FB_Scan ==
    /\ converter = "fb" /\ pc = "scan"
    /\ LET r == FB_ScanAll([out |-> <<>>, glyph |-> face_glyph],
                            unvalidated_intervals, 1, font_stack)
       IN  intervals' = r.out /\ face_glyph' = r.glyph
    /\ pos' = FirstPosFrom(intervals', 1)
    /\ pc' = IF pos' = LoopEnd THEN "metrics" ELSE "glyphs"
    /\ UNCHANGED <<inputs, is2Bit, asserted, unvalidated_intervals, glyphTables,
                   metrics, opened, output, widx, offset, scanVars, packVars, rerunVars, unitVars>>

\* faulty variant: the running total is advanced before the record is built
FB_GlyphProps_OffsetAfter(slot, packed, total, code_point) ==
    [width |-> slot.width,
     height |-> slot.rows,
     advance_x |-> norm_floor(slot.advance_x),
     left |-> slot.bitmap_left,
     top |-> slot.bitmap_top,
     data_length |-> Len(packed),
     data_offset |-> total + Len(packed),
     code_point |-> code_point]

\* lines 145-154: the glyph record of the slot just packed
FB_GlyphProps(slot, packed, total, code_point) ==
    [width |-> slot.width,
     height |-> slot.rows,
     advance_x |-> norm_floor(slot.advance_x),
     left |-> slot.bitmap_left,
     top |-> slot.bitmap_top,
     data_length |-> Len(packed),
     data_offset |-> total,
     code_point |-> code_point]

\* faulty variant: the bitmap is taken from the glyph slot before the glyph
\* of the code point is loaded into it
FB_Glyph_SlotBeforeLoad ==
    /\ converter = "fb" /\ pc = "glyphs" /\ pos # LoopEnd
    /\ LET code_point == pos[2]
           k == load_glyph(font_stack, code_point)
       IN  IF k = 0
           THEN /\ pc' = "aborted"
                /\ UNCHANGED <<pos, glyphTables, face_glyph>>
           ELSE LET slot == GlyphSlot(font_stack[k], face_glyph[k])
                    packed == FB_packed(slot, is2Bit)
                IN  /\ face_glyph' = RenderOn(face_glyph, k, code_point)
                    /\ all_glyphs_props' =
                          Append(all_glyphs_props,
                                 FB_GlyphProps(slot, packed, total_bitmap_size, code_point))
                    /\ total_bitmap_size' = total_bitmap_size + Len(packed)
                    /\ all_glyphs_data' = Append(all_glyphs_data, packed)
                    /\ emitted_cps' = Append(emitted_cps, code_point)
                    /\ pos' = NextPos(intervals, pos)
                    /\ pc' = IF pos' = LoopEnd THEN "metrics" ELSE "glyphs"
    /\ UNCHANGED <<inputs, is2Bit, asserted, unvalidated_intervals, intervals,
                   metrics, opened, output, widx, offset, scanVars, packVars, rerunVars, unitVars>>

\* lines 89-157: one iteration of the glyph loop
FB_Glyph ==
    /\ converter = "fb" /\ pc = "glyphs" /\ pos # LoopEnd
    /\ LET code_point == pos[2]
           k == load_glyph(font_stack, code_point)
       IN  IF k = 0
           THEN /\ pc' = "aborted"
                /\ UNCHANGED <<pos, glyphTables, face_glyph>>
           ELSE LET slot == GlyphSlot(font_stack[k], face_glyph'[k])
                    packed == FB_packed(slot, is2Bit)
                IN  /\ face_glyph' = RenderOn(face_glyph, k, code_point)
                    /\ all_glyphs_props' =
                          Append(all_glyphs_props,
                                 FB_GlyphProps(slot, packed, total_bitmap_size, code_point))
                    /\ total_bitmap_size' = total_bitmap_size + Len(packed)
                    /\ all_glyphs_data' = Append(all_glyphs_data, packed)
                    /\ emitted_cps' = Append(emitted_cps, code_point)
                    /\ pos' = NextPos(intervals, pos)
                    /\ pc' = IF pos' = LoopEnd THEN "metrics" ELSE "glyphs"
    /\ UNCHANGED <<inputs, is2Bit, asserted, unvalidated_intervals, intervals,
                   metrics, opened, output, widx, offset, scanVars, packVars, rerunVars, unitVars>>

\* line 159: face = load_glyph(ord('|')), 0 for None
FB_ReferenceFace(stack) == load_glyph(stack, \h7C)

\* lines 159-162: line metrics from the face that renders '|'
FB_Metrics ==
    /\ converter = "fb" /\ pc = "metrics"
    /\ LET k == FB_ReferenceFace(font_stack)
       IN  IF k = 0
           THEN pc' = "aborted" /\ UNCHANGED <<metrics, face_glyph>>
           ELSE LET m == LineMetrics(FaceSize(font_stack[k], size))
                IN  /\ face_glyph' = RenderOn(face_glyph, k, \h7C)
                    /\ advance_y' = m.advance_y
                    /\ ascender' = m.ascender
                    /\ descender' = m.descender
                    /\ pc' = "open"
    /\ UNCHANGED <<inputs, is2Bit, asserted, unvalidated_intervals, intervals, pos,
                   glyphTables, opened, output, widx, offset, scanVars, packVars, rerunVars, unitVars>>

\* line 164: open(args.output, "wb") creates or truncates the output
FB_Open ==
    /\ converter = "fb" /\ pc = "open"
    /\ opened' = TRUE
    /\ output' = <<>>
    /\ pc' = "magic"
    /\ UNCHANGED <<inputs, is2Bit, asserted, unvalidated_intervals, intervals, pos,
                   glyphTables, metrics, widx, offset, scanVars,
                   face_glyph, packVars, rerunVars, unitVars>>

\* line 166
FB_WriteMagic ==
    /\ converter = "fb" /\ pc = "magic"
    /\ output' = output \o MAGIC
    /\ pc' = "header1"
    /\ UNCHANGED <<inputs, is2Bit, asserted, unvalidated_intervals, intervals, pos,
                   glyphTables, metrics, opened, widx, offset, scanVars,
                   face_glyph, packVars, rerunVars, unitVars>>

\* line 168
FB_WriteHeader1 ==
    /\ converter = "fb" /\ pc = "header1"
    /\ LET fmt == <<"<", "B", "i", "i", "b">>
           args == <<advance_y, ascender, descender, IF is2Bit THEN 1 ELSE 0>>
       IN  IF StructFits(fmt, args)
           THEN output' = output \o StructPack(fmt, args) /\ pc' = "header2"
           ELSE output' = output /\ pc' = "aborted"
    /\ UNCHANGED <<inputs, is2Bit, asserted, unvalidated_intervals, intervals, pos,
                   glyphTables, metrics, opened, widx, offset, scanVars,
                   face_glyph, packVars, rerunVars, unitVars>>

\* where the write phase goes once table number n (1 intervals, 2 glyph
\* records, 3 bitmaps) is to be started: an empty table's loop does nothing
RECURSIVE FB_Phase(_, _, _)
FB_Phase(n, ivs, props) ==
    IF n = 1 THEN (IF Len(ivs) > 0 THEN "intervals" ELSE FB_Phase(2, ivs, props))
    ELSE IF n = 2 THEN (IF Len(props) > 0 THEN "glyph_table" ELSE FB_Phase(3, ivs, props))
    ELSE IF n = 3 THEN (IF Len(props) > 0 THEN "bitmaps" ELSE "done")
    ELSE "done"

\* lines 170-173
FB_WriteHeader2 ==
    /\ converter = "fb" /\ pc = "header2"
    /\ LET fmt == <<"<", "I", "I", "I">>
           args == <<Len(intervals), Len(all_glyphs_props), total_bitmap_size>>
       IN  IF StructFits(fmt, args)
           THEN /\ output' = output \o StructPack(fmt, args)
                /\ pc' = FB_Phase(1, intervals, all_glyphs_props)
           ELSE output' = output /\ pc' = "aborted"
    /\ offset' = 0
    /\ widx' = 1
    /\ UNCHANGED <<inputs, is2Bit, asserted, unvalidated_intervals, intervals, pos,
                   glyphTables, metrics, opened, scanVars,
                   face_glyph, packVars, rerunVars, unitVars>>

\* lines 174-176: one interval record
FB_WriteInterval ==
    /\ converter = "fb" /\ pc = "intervals"
    /\ LET fmt == <<"<", "I", "I", "I">>
           iv == intervals[widx]
           args == <<iv[1], iv[2], offset>>
       IN  IF StructFits(fmt, args)
           THEN /\ output' = output \o StructPack(fmt, args)
                /\ offset' = offset + iv[2] - iv[1] + 1
                /\ IF widx < Len(intervals)
                   THEN widx' = widx + 1 /\ pc' = "intervals"
                   ELSE widx' = 1 /\ pc' = FB_Phase(2, intervals, all_glyphs_props)
           ELSE UNCHANGED <<output, offset, widx>> /\ pc' = "aborted"
    /\ UNCHANGED <<inputs, is2Bit, asserted, unvalidated_intervals, intervals, pos,
                   glyphTables, metrics, opened, scanVars,
                   face_glyph, packVars, rerunVars, unitVars>>

\* lines 180-181: one glyph record
FB_WriteGlyph ==
    /\ converter = "fb" /\ pc = "glyph_table"
    /\ LET g == all_glyphs_props[widx]
           args == <<g.width, g.height, g.advance_x, g.left, g.top,
                     g.data_length, g.data_offset>>
       IN  IF StructFits(GLYPH_STRUCT, args)
           THEN /\ output' = output \o StructPack(GLYPH_STRUCT, args)
                /\ IF widx < Len(all_glyphs_props)
                   THEN widx' = widx + 1 /\ pc' = "glyph_table"
                   ELSE widx' = 1 /\ pc' = FB_Phase(3, intervals, all_glyphs_props)
           ELSE UNCHANGED <<output, widx>> /\ pc' = "aborted"
    /\ UNCHANGED <<inputs, is2Bit, asserted, unvalidated_intervals, intervals, pos,
                   glyphTables, metrics, opened, offset, scanVars,
                   face_glyph, packVars, rerunVars, unitVars>>

\* lines 184-185: one glyph's packed bitmap
FB_WriteBitmap ==
    /\ converter = "fb" /\ pc = "bitmaps"
    /\ output' = output \o all_glyphs_data[widx]
    /\ IF widx < Len(all_glyphs_data)
       THEN widx' = widx + 1 /\ pc' = "bitmaps"
       ELSE widx' = widx /\ pc' = "done"
    /\ UNCHANGED <<inputs, is2Bit, asserted, unvalidated_intervals, intervals, pos,
                   glyphTables, metrics, opened, offset, scanVars,
                   face_glyph, packVars, rerunVars, unitVars>>

FB_Next ==
    \/ FB_Start
    \/ FB_Merge
    \/ FB_Scan
    \/ FB_Glyph
    \/ FB_Metrics
    \/ FB_Open
    \/ FB_WriteMagic
    \/ FB_WriteHeader1
    \/ FB_WriteHeader2
    \/ FB_WriteInterval
    \/ FB_WriteGlyph
    \/ FB_WriteBitmap

(***************************************************************************)
(* cpf_convert.py, one action per step of main() and convert().            *)
(***************************************************************************)

\* lines 289-307, 182-184: parse the arguments, open the face, set its size
CPF_Main ==
    /\ converter = "cpf" /\ pc = "start"
    /\ is2Bit' = ~opt_flag
    /\ pc' = "scan"
    /\ UNCHANGED <<inputs, asserted, unvalidated_intervals, intervals, pos,
                   glyphTables, metrics, opened, output, widx, offset, scanVars,
                   face_glyph, packVars, rerunVars, unitVars>>

\* lines 186-192: coverage intervals; none at all is a fatal error
CPF_BuildIntervals ==
    /\ converter = "cpf" /\ pc = "scan"
    /\ intervals' = build_intervals(font_stack[1], DEFAULT_INTERVALS)
    /\ IF intervals' = <<>>
       THEN pos' = pos /\ pc' = "aborted"
       ELSE /\ pos' = FirstPosFrom(intervals', 1)
            /\ pc' = IF pos' = LoopEnd THEN "metrics" ELSE "glyphs"
    /\ UNCHANGED <<inputs, is2Bit, asserted, unvalidated_intervals, glyphTables,
                   metrics, opened, output, widx, offset, scanVars,
                   face_glyph, packVars, rerunVars, unitVars>>

\* lines 201-209: the glyph record of the slot just packed
CPF_GlyphProps(slot, packed, total_size) ==
    [width |-> slot.width,
     height |-> slot.rows,
     advance_x |-> norm_floor(slot.advance_x),
     left |-> slot.bitmap_left,
     top |-> slot.bitmap_top,
     data_length |-> Len(packed),
     data_offset |-> total_size]

\* lines 194-211: one iteration of the glyph loop
CPF_Glyph ==
    /\ converter = "cpf" /\ pc = "glyphs" /\ pos # LoopEnd
    /\ LET cp == pos[2]
           face == font_stack[1]
           idx == get_char_index(face, cp)
       IN  /\ IF idx = 0
              THEN UNCHANGED <<glyphTables, face_glyph>>
              ELSE LET slot == GlyphSlot(face, face_glyph'[1])
                       packed == IF is2Bit THEN rasterize_glyph_2bit(slot)
                                 ELSE rasterize_glyph_1bit(slot)
                   IN  /\ face_glyph' = RenderOn(face_glyph, 1, cp)
                       /\ all_glyphs_props' =
                             Append(all_glyphs_props,
                                    CPF_GlyphProps(slot, packed, total_bitmap_size))
                       /\ total_bitmap_size' = total_bitmap_size + Len(packed)
                       /\ all_glyphs_data' = Append(all_glyphs_data, packed)
                       /\ emitted_cps' = Append(emitted_cps, cp)
           /\ pos' = NextPos(intervals, pos)
           /\ pc' = IF pos' = LoopEnd THEN "metrics" ELSE "glyphs"
    /\ UNCHANGED <<inputs, is2Bit, asserted, unvalidated_intervals, intervals,
                   metrics, opened, output, widx, offset, scanVars, packVars, rerunVars, unitVars>>

\* lines 213-224: '|' is rendered when the face has it; the metrics are the
\* face's size metrics either way
CPF_Metrics ==
    /\ converter = "cpf" /\ pc = "metrics"
    /\ LET face == font_stack[1]
           m == LineMetrics(FaceSize(face, size))
       IN  /\ face_glyph' = IF get_char_index(face, \h7C) # 0
                             THEN RenderOn(face_glyph, 1, \h7C)
                             ELSE face_glyph
           /\ advance_y' = m.advance_y
           /\ ascender' = m.ascender
           /\ descender' = m.descender
    /\ pc' = "asserts"
    /\ UNCHANGED <<inputs, is2Bit, asserted, unvalidated_intervals, intervals, pos,
                   glyphTables, opened, output, widx, offset, scanVars, packVars, rerunVars, unitVars>>

\* lines 239-243: both record sizes are asserted
CPF_Assert ==
    /\ converter = "cpf" /\ pc = "asserts"
    /\ IF calcsize(GLYPH_FMT) # 16
       THEN asserted' = asserted /\ pc' = "aborted"
       ELSE IF calcsize(INTERVAL_FMT) # 12
       THEN asserted' = asserted \cup {"glyph"} /\ pc' = "aborted"
       ELSE asserted' = asserted \cup {"glyph", "interval"} /\ pc' = "open"
    /\ UNCHANGED <<inputs, is2Bit, unvalidated_intervals, intervals, pos,
                   glyphTables, metrics, opened, output, widx, offset, scanVars,
                   face_glyph, packVars, rerunVars, unitVars>>

\* line 245
CPF_Open ==
    /\ converter = "cpf" /\ pc = "open"
    /\ opened' = TRUE
    /\ output' = <<>>
    /\ pc' = "magic"
    /\ UNCHANGED <<inputs, is2Bit, asserted, unvalidated_intervals, intervals, pos,
                   glyphTables, metrics, widx, offset, scanVars,
                   face_glyph, packVars, rerunVars, unitVars>>

\* line 247
CPF_WriteMagic ==
    /\ converter = "cpf" /\ pc = "magic"
    /\ output' = output \o MAGIC
    /\ widx' = 1
    /\ pc' = "header"
    /\ UNCHANGED <<inputs, is2Bit, asserted, unvalidated_intervals, intervals, pos,
                   glyphTables, metrics, opened, offset, scanVars,
                   face_glyph, packVars, rerunVars, unitVars>>

\* lines 222-224, 248-254: the seven header writes, <<format, value>>
CPF_HeaderFields ==
    << <<"B", advance_y>>, <<"i", ascender>>, <<"i", descender>>,
       <<"B", IF is2Bit THEN 1 ELSE 0>>, <<"I", Len(intervals)>>,
       <<"I", Len(all_glyphs_props)>>, <<"I", total_bitmap_size>> >>

RECURSIVE CPF_Phase(_, _, _)
CPF_Phase(n, ivs, glyphs) ==
    IF n = 1 THEN (IF Len(ivs) > 0 THEN "intervals" ELSE CPF_Phase(2, ivs, glyphs))
    ELSE IF n = 2 THEN (IF Len(glyphs) > 0 THEN "glyph_table" ELSE CPF_Phase(3, ivs, glyphs))
    ELSE IF n = 3 THEN (IF Len(glyphs) > 0 THEN "bitmaps" ELSE "done")
    ELSE "done"

\* lines 248-257: one header write
CPF_WriteHeader ==
    /\ converter = "cpf" /\ pc = "header"
    /\ LET fmt == <<"<", CPF_HeaderFields[widx][1]>>
           args == <<CPF_HeaderFields[widx][2]>>
       IN  IF StructFits(fmt, args)
           THEN /\ output' = output \o StructPack(fmt, args)
                /\ IF widx < Len(CPF_HeaderFields)
                   THEN widx' = widx + 1 /\ pc' = "header"
                   ELSE widx' = 1 /\ pc' = CPF_Phase(1, intervals, all_glyphs_props)
           ELSE UNCHANGED <<output, widx>> /\ pc' = "aborted"
    /\ offset' = 0
    /\ UNCHANGED <<inputs, is2Bit, asserted, unvalidated_intervals, intervals, pos,
                   glyphTables, metrics, opened, scanVars,
                   face_glyph, packVars, rerunVars, unitVars>>

\* lines 258-260: one interval record
CPF_WriteInterval ==
    /\ converter = "cpf" /\ pc = "intervals"
    /\ LET iv == intervals[widx]
           args == <<iv[1], iv[2], offset>>
       IN  IF StructFits(INTERVAL_FMT, args)
           THEN /\ output' = output \o StructPack(INTERVAL_FMT, args)
                /\ offset' = offset + iv[2] - iv[1] + 1
                /\ IF widx < Len(intervals)
                   THEN widx' = widx + 1 /\ pc' = "intervals"
                   ELSE widx' = 1 /\ pc' = CPF_Phase(2, intervals, all_glyphs_props)
           ELSE UNCHANGED <<output, offset, widx>> /\ pc' = "aborted"
    /\ UNCHANGED <<inputs, is2Bit, asserted, unvalidated_intervals, intervals, pos,
                   glyphTables, metrics, opened, scanVars,
                   face_glyph, packVars, rerunVars, unitVars>>

\* lines 263-275: one glyph record
CPF_WriteGlyph ==
    /\ converter = "cpf" /\ pc = "glyph_table"
    /\ LET props == all_glyphs_props[widx]
           args == <<props.width, props.height, props.advance_x, props.left,
                     props.top, props.data_length, props.data_offset>>
       IN  IF StructFits(GLYPH_FMT, args)
           THEN /\ output' = output \o StructPack(GLYPH_FMT, args)
                /\ IF widx < Len(all_glyphs_props)
                   THEN widx' = widx + 1 /\ pc' = "glyph_table"
                   ELSE widx' = 1 /\ pc' = CPF_Phase(3, intervals, all_glyphs_props)
           ELSE UNCHANGED <<output, widx>> /\ pc' = "aborted"
    /\ UNCHANGED <<inputs, is2Bit, asserted, unvalidated_intervals, intervals, pos,
                   glyphTables, metrics, opened, offset, scanVars,
                   face_glyph, packVars, rerunVars, unitVars>>

\* lines 278-279: one glyph's packed bitmap
CPF_WriteBitmap ==
    /\ converter = "cpf" /\ pc = "bitmaps"
    /\ output' = output \o all_glyphs_data[widx]
    /\ IF widx < Len(all_glyphs_data)
       THEN widx' = widx + 1 /\ pc' = "bitmaps"
       ELSE widx' = widx /\ pc' = "done"
    /\ UNCHANGED <<inputs, is2Bit, asserted, unvalidated_intervals, intervals, pos,
                   glyphTables, metrics, opened, offset, scanVars,
                   face_glyph, packVars, rerunVars, unitVars>>

CPF_Next ==
    \/ CPF_Main
    \/ CPF_BuildIntervals
    \/ CPF_Glyph
    \/ CPF_Metrics
    \/ CPF_Assert
    \/ CPF_Open
    \/ CPF_WriteMagic
    \/ CPF_WriteHeader
    \/ CPF_WriteInterval
    \/ CPF_WriteGlyph
    \/ CPF_WriteBitmap

Next == FB_Next \/ CPF_Next
Spec == Init /\ [][Next]_vars

(***************************************************************************)
(* A second invocation with the same command line.  Every invocation is a  *)
(* new process: the script's variables and the face handles start afresh,  *)
(* and the only thing the first invocation leaves behind is the file at    *)
(* the output path.                                                        *)
(***************************************************************************)
Rerun ==
    /\ run = 1 /\ pc \in {"done", "aborted"}
    /\ run' = 2
    /\ first_output' = output
    /\ first_pc' = pc
    /\ pc' = "start"
    /\ is2Bit' = FALSE
    /\ asserted' = {}
    /\ unvalidated_intervals' = <<>>
    /\ intervals' = <<>>
    /\ pos' = LoopEnd
    /\ all_glyphs_props' = <<>>
    /\ all_glyphs_data' = <<>>
    /\ total_bitmap_size' = 0
    /\ advance_y' = 0
    /\ ascender' = 0
    /\ descender' = 0
    /\ opened' = FALSE
    /\ output' = output
    /\ widx' = 0
    /\ offset' = 0
    /\ emitted_cps' = <<>>
    /\ face_glyph' = [k \in 1..Len(font_stack) |-> NoGlyph]
    /\ UNCHANGED <<inputs, scanVars, packVars, unitVars>>

NextTwice == Next \/ Rerun
SpecTwice == Init /\ [][NextTwice]_vars

(***************************************************************************)
(* The coverage scan applied to one requested interval on its own: the     *)
(* request and the face's character map are drawn from a window of code    *)
(* points starting at U+0041.                                              *)
(***************************************************************************)
ScanSpan == 3
ScanWindow == \h41 .. (\h41 + ScanSpan)

ScanInit ==
    /\ converter = "fb"
    /\ font_stack = <<>>
    /\ add_ints = <<>>
    /\ opt_flag = FALSE
    /\ size = 0
    /\ is2Bit = FALSE
    /\ pc = "idle"
    /\ asserted = {}
    /\ unvalidated_intervals = <<>>
    /\ intervals = <<>>
    /\ pos = LoopEnd
    /\ all_glyphs_props = <<>>
    /\ all_glyphs_data = <<>>
    /\ total_bitmap_size = 0
    /\ advance_y = 0
    /\ ascender = 0
    /\ descender = 0
    /\ opened = FALSE
    /\ output = <<>>
    /\ widx = 0
    /\ offset = 0
    /\ emitted_cps = <<>>
    /\ face_glyph = <<>>
    /\ PackIdle
    /\ FirstRun
    /\ UnitIdle
    /\ scan_pc = "ready"
    /\ scan_req \in ScanWindow \X ScanWindow
    /\ scan_cmap \in SUBSET ScanWindow
    /\ scan_fb = <<>>
    /\ scan_cpf = <<>>

ScanFace == [cmap |-> scan_cmap, variant |-> 1]

\* fontconvert_bin.py lines 71-80 on the single request scan_req
Scan_FB ==
    /\ scan_pc = "ready"
    /\ scan_fb' = FB_ScanAll([out |-> <<>>, glyph |-> <<NoGlyph>>],
                             <<scan_req>>, 1, <<ScanFace>>).out
    /\ scan_pc' = "fb_done"
    /\ UNCHANGED <<runVars, packVars, rerunVars, unitVars, scan_req, scan_cmap, scan_cpf>>

\* cpf_convert.py build_intervals on the single request scan_req
Scan_CPF ==
    /\ scan_pc = "fb_done"
    /\ scan_cpf' = build_intervals(ScanFace, <<scan_req>>)
    /\ scan_pc' = "done"
    /\ UNCHANGED <<runVars, packVars, rerunVars, unitVars, scan_req, scan_cmap, scan_fb>>

ScanNext == Scan_FB \/ Scan_CPF
SpecScan == ScanInit /\ [][ScanNext]_vars

(***************************************************************************)
(* Glyph packing applied to one bitmap on its own.  The bitmap is an 8-bit *)
(* coverage bitmap as the engine renders it: rows stored one after the     *)
(* other, pitch equal to width.  Its shape is drawn from PackShapes        *)
(* (<<width, rows>>) and each coverage byte from PackLevels.               *)
(***************************************************************************)
PackShapes ==
    { <<0, 0>>, <<0, 2>>, <<2, 0>>, <<1, 1>>, <<3, 1>>, <<1, 3>>, <<2, 2>>, <<4, 2>>,
      <<3, 3>> }
PackLevels == {0, 100, 255}

ShapeBitmaps ==
    UNION { [width : {sh[1]}, rows : {sh[2]}, pitch : {sh[1]},
             buffer : [1..(sh[1] * sh[2]) -> PackLevels]] : sh \in PackShapes }

\* one row of two pixels: one pixel takes every coverage value, in the even
\* or in the odd column, next to a blank or a full neighbour
QuantBitmaps ==
    { [width |-> 2, rows |-> 1, pitch |-> 2,
       buffer |-> IF t[3] = 0 THEN <<t[1], t[2]>> ELSE <<t[2], t[1]>>] :
         t \in (0..255) \X {0, 255} \X {0, 1} }

PackBitmaps == ShapeBitmaps \cup QuantBitmaps

\* no conversion is running
RunIdle ==
    /\ converter = "fb"
    /\ font_stack = <<>>
    /\ add_ints = <<>>
    /\ opt_flag = FALSE
    /\ size = 0
    /\ is2Bit = FALSE
    /\ pc = "idle"
    /\ asserted = {}
    /\ unvalidated_intervals = <<>>
    /\ intervals = <<>>
    /\ pos = LoopEnd
    /\ all_glyphs_props = <<>>
    /\ all_glyphs_data = <<>>
    /\ total_bitmap_size = 0
    /\ advance_y = 0
    /\ ascender = 0
    /\ descender = 0
    /\ opened = FALSE
    /\ output = <<>>
    /\ widx = 0
    /\ offset = 0
    /\ emitted_cps = <<>>
    /\ face_glyph = <<>>

PackInit ==
    /\ RunIdle
    /\ ScanIdle
    /\ FirstRun
    /\ UnitIdle
    /\ pack_pc = "ready"
    /\ pack_bitmap \in PackBitmaps
    /\ pack_2bit \in BOOLEAN
    /\ packed_fb = <<>>
    /\ packed_cpf = <<>>

\* fontconvert_bin.py lines 94-144 on pack_bitmap
Pack_FB ==
    /\ pack_pc = "ready"
    /\ packed_fb' = FB_packed(pack_bitmap, pack_2bit)
    /\ pack_pc' = "fb_done"
    /\ UNCHANGED <<runVars, scanVars, rerunVars, unitVars, pack_bitmap, pack_2bit, packed_cpf>>

\* cpf_convert.py line 200 on pack_bitmap
Pack_CPF ==
    /\ pack_pc = "fb_done"
    /\ packed_cpf' = IF pack_2bit THEN rasterize_glyph_2bit(pack_bitmap)
                                  ELSE rasterize_glyph_1bit(pack_bitmap)
    /\ pack_pc' = "done"
    /\ UNCHANGED <<runVars, scanVars, rerunVars, unitVars, pack_bitmap, pack_2bit, packed_fb>>

PackNext == Pack_FB \/ Pack_CPF
SpecPack == PackInit /\ [][PackNext]_vars

(***************************************************************************)
(* Glyph packing applied to a bitmap whose rows are stored with alignment  *)
(* bytes: pitch larger than width, buffer of rows * pitch bytes, pixel     *)
(* (x, y) at byte y * pitch + x.  Shapes are <<width, rows, pitch>>.       *)
(***************************************************************************)
PitchShapes == { <<1, 1, 2>>, <<1, 3, 2>>, <<2, 2, 3>>, <<2, 2, 4>>, <<3, 2, 4>> }

PitchBitmaps ==
    UNION { [width : {sh[1]}, rows : {sh[2]}, pitch : {sh[3]},
             buffer : [1..(sh[2] * sh[3]) -> PackLevels]] : sh \in PitchShapes }

PitchInit ==
    /\ RunIdle
    /\ ScanIdle
    /\ FirstRun
    /\ UnitIdle
    /\ pack_pc = "ready"
    /\ pack_bitmap \in PitchBitmaps
    /\ pack_2bit \in BOOLEAN
    /\ packed_fb = <<>>
    /\ packed_cpf = <<>>

SpecPitch == PitchInit /\ [][PackNext]_vars

(***************************************************************************)
(* Metric rounding applied to one 26.6 fixed-point value on its own: the   *)
(* value is taken as a glyph's advance and as the face's height, ascender  *)
(* and descender, and rounded as the glyph record and the header do.       *)
(***************************************************************************)
RoundSpan == 130
RoundValues == (-RoundSpan)..RoundSpan

RoundInit ==
    /\ RunIdle
    /\ ScanIdle
    /\ PackIdle
    /\ FirstRun
    /\ MergeIdle
    /\ round_pc = "ready"
    /\ round_val \in RoundValues
    /\ round_out = <<>>

RoundSlot(val) ==
    [width |-> 0, rows |-> 0, pitch |-> 0, buffer |-> <<>>,
     advance_x |-> val, bitmap_left |-> 0, bitmap_top |-> 0]

\* fontconvert_bin.py lines 145-154 and 159-162; cpf_convert.py lines
\* 205-214 and 218-220, on round_val
Round_Apply ==
    /\ round_pc = "ready"
    /\ round_out' =
          [fb_advance_x |-> FB_GlyphProps(RoundSlot(round_val), <<>>, 0, 0).advance_x,
           cpf_advance_x |-> CPF_GlyphProps(RoundSlot(round_val), <<>>, 0).advance_x,
           line |-> LineMetrics([height |-> round_val, ascender |-> round_val,
                                 descender |-> round_val])]
    /\ round_pc' = "done"
    /\ UNCHANGED <<runVars, scanVars, packVars, rerunVars, mergeVars, round_val>>

RoundNext == Round_Apply
SpecRound == RoundInit /\ [][RoundNext]_vars

(***************************************************************************)
(* The interval merge of fontconvert_bin.py applied to one list of         *)
(* requested intervals on its own, and then to its own result.  Requests   *)
(* have first <= last, lie in 0..MergeSpan and come in any order.          *)
(***************************************************************************)
MergeSpan == 3
MaxReq == 3
MergeRequests ==
    SeqsUpTo({ iv \in (0..MergeSpan) \X (0..MergeSpan) : iv[1] <= iv[2] }, MaxReq)

MergeInit ==
    /\ RunIdle
    /\ ScanIdle
    /\ PackIdle
    /\ FirstRun
    /\ RoundIdle
    /\ merge_pc = "ready"
    /\ merge_req \in MergeRequests
    /\ merge_out = <<>>
    /\ merge_again = <<>>

\* fontconvert_bin.py lines 62-69 on merge_req
Merge_Apply ==
    /\ merge_pc = "ready"
    /\ merge_out' = MergeIntervals(merge_req)
    /\ merge_pc' = "merged"
    /\ UNCHANGED <<runVars, scanVars, packVars, rerunVars, roundVars, merge_req,
                   merge_again>>

\* fontconvert_bin.py lines 62-69 on the list the merge returned
Merge_Again ==
    /\ merge_pc = "merged"
    /\ merge_again' = MergeIntervals(merge_out)
    /\ merge_pc' = "done"
    /\ UNCHANGED <<runVars, scanVars, packVars, rerunVars, roundVars, merge_req,
                   merge_out>>

MergeNext == Merge_Apply \/ Merge_Again
SpecMerge == MergeInit /\ [][MergeNext]_vars

(***************************************************************************)
(* Reading a written stream back by the fixed layout.  p is the 0-based    *)
(* byte offset of the field in the stream.                                 *)
(***************************************************************************)
U8At(out, p) == out[p + 1]
U16At(out, p) == out[p + 1] + 256 * out[p + 2]
S16At(out, p) == out[p + 1] + 256 * (IF out[p + 2] >= 128 THEN out[p + 2] - 256 ELSE out[p + 2])
S32At(out, p) ==
    out[p + 1] + 256 * out[p + 2] + 65536 * out[p + 3]
    + 16777216 * (IF out[p + 4] >= 128 THEN out[p + 4] - 256 ELSE out[p + 4])
\* an unsigned 32-bit field whose value is below 2^31
U32At(out, p) == S32At(out, p)

HeaderLen == 4 + 10 + 12     \* magic, "<Biib", "<III"
IntervalRecAt(i) == HeaderLen + 12 * (i - 1)
GlyphTableBase == HeaderLen + 12 * Len(intervals)
GlyphRecAt(i) == GlyphTableBase + 16 * (i - 1)
PayloadBase == GlyphTableBase + 16 * Len(all_glyphs_props)

GlyphLengths == [i \in 1..Len(all_glyphs_props) |-> all_glyphs_props[i].data_length]
IntervalCounts == [i \in 1..Len(intervals) |-> intervals[i][2] - intervals[i][1] + 1]
NoFaceHasPipe == \A k \in 1..Len(font_stack) : \h7C \notin font_stack[k].cmap

\* glyph records completely present in the stream
GlyphRecordsWritten ==
    IF ~opened \/ Len(output) <= GlyphTableBase THEN 0
    ELSE IF (Len(output) - GlyphTableBase) \div 16 >= Len(all_glyphs_props)
         THEN Len(all_glyphs_props)
         ELSE (Len(output) - GlyphTableBase) \div 16

(***************************************************************************)
(* C1: in every run of either converter the first glyph record has         *)
(* dataOffset 0, each later record's dataOffset is the previous record's   *)
(* dataOffset plus its dataLength, and the bitmapSize in the header is the *)
(* sum of all dataLength; the same holds of the fields read back from a    *)
(* completed stream.                                                       *)
(***************************************************************************)
C1_OffsetsArePrefixSums ==
    /\ \A i \in 1..Len(all_glyphs_props) :
          all_glyphs_props[i].data_offset = SumSeq(SubSeq(GlyphLengths, 1, i - 1))
    /\ pc \in {"metrics", "open", "done"} => total_bitmap_size = SumSeq(GlyphLengths)
    /\ (opened /\ Len(output) >= HeaderLen) =>
          U32At(output, 22) = SumSeq(GlyphLengths)
    /\ pc = "done" =>
          \A i \in 1..Len(all_glyphs_props) :
             U32At(output, GlyphRecAt(i) + 12) =
                IF i = 1 THEN 0
                ELSE U32At(output, GlyphRecAt(i - 1) + 12) + U16At(output, GlyphRecAt(i - 1) + 8)

C1_Witness ==
    /\ pc = "done"
    /\ Len(all_glyphs_props) >= 3
    /\ all_glyphs_props[3].data_offset > all_glyphs_props[2].data_offset
    /\ all_glyphs_props[2].data_offset > 0

(***************************************************************************)
(* C2: the coverage intervals of fontconvert_bin.py are ascending and      *)
(* pairwise non-overlapping: each interval starts strictly after the       *)
(* previous one ends.                                                      *)
(***************************************************************************)
C2_CoverageDisjointAscending ==
    converter = "fb" =>
       \A i \in 2..Len(intervals) : intervals[i][1] > intervals[i - 1][2]

(***************************************************************************)
(* C3: in a written interval table the first glyph index offset is 0,      *)
(* each offset is the sum of the code-point counts of the earlier          *)
(* intervals, the offsets strictly increase, and the last offset plus the  *)
(* last count is the glyphCount of the header.                             *)
(***************************************************************************)
C3_IntervalOffsets ==
    pc = "done" =>
       /\ \A i \in 1..Len(intervals) :
             U32At(output, IntervalRecAt(i) + 8) = SumSeq(SubSeq(IntervalCounts, 1, i - 1))
       /\ \A i \in 2..Len(intervals) :
             U32At(output, IntervalRecAt(i) + 8) > U32At(output, IntervalRecAt(i - 1) + 8)
       /\ Len(intervals) > 0 =>
             U32At(output, IntervalRecAt(Len(intervals)) + 8)
                + IntervalCounts[Len(intervals)] = U32At(output, 18)
       /\ U32At(output, 18) = Len(all_glyphs_props)

(***************************************************************************)
(* C4: scanning one request [s, e], s <= e, yields intervals whose union   *)
(* is exactly the defined code points of [s, e], none of them empty, so an *)
(* undefined code point between two defined ones separates two intervals;  *)
(* [0x41, 0x43] with 0x42 undefined gives [0x41, 0x41] and [0x43, 0x43].   *)
(* Both fontconvert_bin.py's scan and cpf_convert.build_intervals.         *)
(***************************************************************************)
Covered(ivs) == UNION { ivs[i][1] .. ivs[i][2] : i \in 1..Len(ivs) }

ScanExact(ivs) ==
    /\ Covered(ivs) = (scan_req[1] .. scan_req[2]) \cap scan_cmap
    /\ \A i \in 1..Len(ivs) : ivs[i][1] <= ivs[i][2]
    /\ \A i \in 2..Len(ivs) : ivs[i][1] > ivs[i - 1][2] + 1

C4_ScanCoversExactlyDefined ==
    (scan_pc = "done" /\ scan_req[1] <= scan_req[2]) =>
       /\ ScanExact(scan_fb)
       /\ ScanExact(scan_cpf)
       /\ (scan_req = <<\h41, \h43>> /\ scan_cmap \cap (\h41 .. \h43) = {\h41, \h43}) =>
             /\ scan_fb = << <<\h41, \h41>>, <<\h43, \h43>> >>
             /\ scan_cpf = << <<\h41, \h41>>, <<\h43, \h43>> >>

C4_Witness ==
    /\ scan_pc = "done"
    /\ scan_req = <<\h41, \h43>>
    /\ scan_cmap = {\h41, \h43}
    /\ Len(scan_fb) = 2
    /\ Len(scan_cpf) = 2

(***************************************************************************)
(* C5: a run that aborts has written no bytes to the output path.          *)
(***************************************************************************)
C5_AbortLeavesNoOutput ==
    pc = "aborted" => (~opened /\ output = <<>>)

(***************************************************************************)
(* C6: when no face of the stack defines '|' (U+007C) the run aborts and   *)
(* writes no bundle, in both converters.                                   *)
(***************************************************************************)
C6_NoReferenceGlyphIsFatal ==
    NoFaceHasPipe => (~opened /\ pc # "done")

(***************************************************************************)
(* C7: both record sizes, 16 for the glyph record and 12 for the interval  *)
(* record, have been checked before the first byte of output is written,   *)
(* in both converters.                                                     *)
(***************************************************************************)
C7_SizesCheckedBeforeOutput ==
    opened => {"glyph", "interval"} \subseteq asserted

(***************************************************************************)
(* C8: glyph records are emitted in strictly ascending code-point order,   *)
(* by fontconvert_bin.py and by cpf_convert.convert with DEFAULT_INTERVALS.*)
(***************************************************************************)
C8_GlyphsAscending ==
    \A i \in 2..Len(emitted_cps) : emitted_cps[i] > emitted_cps[i - 1]

(***************************************************************************)
(* C9 as stated: the stream of a completed run is the 4-byte magic, 18     *)
(* further header bytes, the interval records, the glyph records and the   *)
(* bitmaps, 22 + 12*intervalCount + 16*glyphCount + bitmapSize bytes long. *)
(***************************************************************************)
C9_StreamLayout22 ==
    pc = "done" =>
       Len(output) = 22 + 12 * Len(intervals) + 16 * Len(all_glyphs_props)
                        + total_bitmap_size

(***************************************************************************)
(* C9 amended: the stream of a completed run is, in this order and with    *)
(* nothing in between, the 4-byte magic, 22 further header bytes (advanceY *)
(* 1, ascender 4, descender 4, bit-depth flag 1, intervalCount 4,          *)
(* glyphCount 4, bitmapSize 4), intervalCount 12-byte interval records,    *)
(* glyphCount 16-byte glyph records and the concatenated bitmaps; its      *)
(* length is 26 + 12*intervalCount + 16*glyphCount + bitmapSize and glyph  *)
(* i's packed bytes are payload[dataOffset(i) .. dataOffset(i) +           *)
(* dataLength(i)).                                                         *)
(***************************************************************************)
C9_StreamLayout ==
    pc = "done" =>
       /\ SubSeq(output, 1, 4) = <<67, 80, 70, 1>>
       /\ U8At(output, 4) = advance_y
       /\ S32At(output, 5) = ascender
       /\ S32At(output, 9) = descender
       /\ U8At(output, 13) = (IF is2Bit THEN 1 ELSE 0)
       /\ U32At(output, 14) = Len(intervals)
       /\ U32At(output, 18) = Len(all_glyphs_props)
       /\ U32At(output, 22) = total_bitmap_size
       /\ Len(output) = 26 + 12 * U32At(output, 14) + 16 * U32At(output, 18)
                           + U32At(output, 22)
       /\ \A i \in 1..Len(intervals) :
             /\ U32At(output, 26 + 12 * (i - 1)) = intervals[i][1]
             /\ U32At(output, 26 + 12 * (i - 1) + 4) = intervals[i][2]
       /\ \A i \in 1..Len(all_glyphs_props) :
             LET rec == 26 + 12 * U32At(output, 14) + 16 * (i - 1)
                 payload == 26 + 12 * U32At(output, 14) + 16 * U32At(output, 18)
                 dataLength == U16At(output, rec + 8)
                 dataOffset == U32At(output, rec + 12)
             IN  SubSeq(output, payload + dataOffset + 1,
                        payload + dataOffset + dataLength) = all_glyphs_data[i]

C9_Witness ==
    /\ pc = "done"
    /\ Len(intervals) >= 3
    /\ Len(all_glyphs_props) >= 3
    /\ all_glyphs_data[1] # <<>>
    /\ all_glyphs_data[3] # <<>>

(***************************************************************************)
(* C10: every glyph record written is 16 bytes, little-endian: width at    *)
(* byte 0, height at 1, advanceX at 2, a zero pad byte at 3, signed left   *)
(* at 4-5, signed top at 6-7, unsigned dataLength at 8-9, two zero pad     *)
(* bytes at 10-11 and unsigned dataOffset at 12-15.                        *)
(***************************************************************************)
C10_GlyphRecordLayout ==
    /\ pc = "glyph_table" => Len(output) = GlyphRecAt(widx)
    /\ pc \in {"bitmaps", "done"} => GlyphRecordsWritten = Len(all_glyphs_props)
    /\ \A i \in 1..GlyphRecordsWritten :
          LET rec == GlyphRecAt(i)
              g == all_glyphs_props[i]
          IN  /\ output[rec + 1] = g.width
              /\ output[rec + 2] = g.height
              /\ output[rec + 3] = g.advance_x
              /\ output[rec + 4] = 0
              /\ S16At(output, rec + 4) = g.left
              /\ S16At(output, rec + 6) = g.top
              /\ U16At(output, rec + 8) = g.data_length
              /\ output[rec + 11] = 0
              /\ output[rec + 12] = 0
              /\ U32At(output, rec + 12) = g.data_offset

C10_Witness ==
    /\ GlyphRecordsWritten >= 2
    /\ \E i \in 1..GlyphRecordsWritten :
          /\ all_glyphs_props[i].left < 0
          /\ all_glyphs_props[i].top > 255
          /\ all_glyphs_props[i].data_offset > 0

(***************************************************************************)
(* Parsing a stream by the fixed layout: header, interval i, glyph record  *)
(* i of a stream with n interval records.                                  *)
(***************************************************************************)
ParsedHeader(out) ==
    [advanceY |-> U8At(out, 4),
     ascender |-> S32At(out, 5),
     descender |-> S32At(out, 9),
     is2Bit |-> U8At(out, 13),
     intervalCount |-> U32At(out, 14),
     glyphCount |-> U32At(out, 18),
     bitmapSize |-> U32At(out, 22)]

ParsedInterval(out, i) ==
    LET p == HeaderLen + 12 * (i - 1)
    IN  <<U32At(out, p), U32At(out, p + 4), U32At(out, p + 8)>>

ParsedGlyph(out, n, i) ==
    LET p == HeaderLen + 12 * n + 16 * (i - 1)
    IN  [width |-> U8At(out, p),
         height |-> U8At(out, p + 1),
         advance_x |-> U8At(out, p + 2),
         left |-> S16At(out, p + 4),
         top |-> S16At(out, p + 6),
         data_length |-> U16At(out, p + 8),
         data_offset |-> U32At(out, p + 12)]

\* the fields of a glyph record that the encoder packs
PackedFields(g) ==
    [width |-> g.width, height |-> g.height, advance_x |-> g.advance_x,
     left |-> g.left, top |-> g.top, data_length |-> g.data_length,
     data_offset |-> g.data_offset]

(***************************************************************************)
(* C11: round trip.  Parsing the stream of a completed run by the fixed    *)
(* layout recovers the header fields, the first and last code point of     *)
(* every interval and every glyph record value the encoder was given, and  *)
(* every interval record written parses back to the triple (first, last,   *)
(* running offset) handed to the write.                                    *)
(***************************************************************************)
C11_RoundTrip ==
    /\ [](pc = "done" =>
            /\ ParsedHeader(output) =
                  [advanceY |-> advance_y,
                   ascender |-> ascender,
                   descender |-> descender,
                   is2Bit |-> IF is2Bit THEN 1 ELSE 0,
                   intervalCount |-> Len(intervals),
                   glyphCount |-> Len(all_glyphs_props),
                   bitmapSize |-> total_bitmap_size]
            /\ \A i \in 1..Len(intervals) :
                  /\ ParsedInterval(output, i)[1] = intervals[i][1]
                  /\ ParsedInterval(output, i)[2] = intervals[i][2]
            /\ \A i \in 1..Len(all_glyphs_props) :
                  ParsedGlyph(output, ParsedHeader(output).intervalCount, i)
                     = PackedFields(all_glyphs_props[i]))
    /\ [][(pc = "intervals" /\ pc' # "aborted") =>
             ParsedInterval(output', widx) =
                <<intervals[widx][1], intervals[widx][2], offset>>]_vars

C11_Witness ==
    /\ pc = "done"
    /\ is2Bit
    /\ descender < -1
    /\ Len(intervals) >= 2
    /\ \E i \in 1..Len(all_glyphs_props) :
          all_glyphs_props[i].left < 0 /\ all_glyphs_props[i].data_offset > 0

(***************************************************************************)
(* The glyph of a code point rendered on its own: the slot of the first    *)
(* face that defines it, straight after that face has loaded it, and the   *)
(* bytes the converter in use packs from it.                               *)
(***************************************************************************)
Defining(code_point) ==
    {j \in 1..Len(font_stack) : code_point \in font_stack[j].cmap}

FirstDefining(code_point) ==
    CHOOSE j \in Defining(code_point) : \A i \in Defining(code_point) : j <= i

FreshSlot(code_point) == GlyphSlot(font_stack[FirstDefining(code_point)], code_point)

FreshPacked(code_point) ==
    IF converter = "fb" THEN FB_packed(FreshSlot(code_point), is2Bit)
    ELSE IF is2Bit THEN rasterize_glyph_2bit(FreshSlot(code_point))
    ELSE rasterize_glyph_1bit(FreshSlot(code_point))

\* glyph i of the run is the glyph of its own code point and of nothing the
\* coverage pre-pass or an earlier iteration left in a glyph slot
GlyphIsFresh(i) ==
    LET code_point == emitted_cps[i]
        slot == FreshSlot(code_point)
        g == all_glyphs_props[i]
    IN  /\ all_glyphs_data[i] = FreshPacked(code_point)
        /\ g.width = slot.width
        /\ g.height = slot.rows
        /\ 64 * g.advance_x <= slot.advance_x
        /\ slot.advance_x < 64 * (g.advance_x + 1)
        /\ g.left = slot.bitmap_left
        /\ g.top = slot.bitmap_top
        /\ g.data_length = Len(FreshPacked(code_point))

\* the payload of a completed stream holds, at each glyph's dataOffset, the
\* bytes of that glyph rendered on its own
PayloadIsFresh ==
    \A i \in 1..Len(all_glyphs_props) :
       \A j \in 1..Len(FreshPacked(emitted_cps[i])) :
          output[PayloadBase + all_glyphs_props[i].data_offset + j]
             = FreshPacked(emitted_cps[i])[j]

(***************************************************************************)
(* C12: determinism.  A second invocation with the same font stack, size,  *)
(* bit depth and requested intervals ends the same way as the first and    *)
(* leaves byte-identical output, whatever the first left at the output     *)
(* path; and nothing the coverage pre-pass left behind reaches the bytes:  *)
(* every glyph emitted, in either invocation, is the glyph of its own code *)
(* point rendered on its own, although the pre-pass has left another code  *)
(* point's glyph in the face's slot.                                       *)
(***************************************************************************)
C12_SecondRunIdentical ==
    /\ (run = 2 /\ pc \in {"done", "aborted"}) =>
          /\ pc = first_pc
          /\ output = first_output
    /\ \A i \in 1..Len(all_glyphs_data) : GlyphIsFresh(i)
    /\ pc = "done" => PayloadIsFresh

\* the second invocation has completed over what the first left; two glyphs
\* of the primary face differ, and the pre-pass ended on the later one, so
\* the slot held the wrong glyph when the earlier one was emitted
C12_Witness ==
    /\ run = 2
    /\ pc = "done"
    /\ converter = "fb"
    /\ Len(font_stack) = 2
    /\ first_output # <<>>
    /\ output = first_output
    /\ \E i \in 1..Len(emitted_cps) : \E j \in 1..Len(emitted_cps) :
          /\ i < j
          /\ FirstDefining(emitted_cps[i]) = 1
          /\ FirstDefining(emitted_cps[j]) = 1
          /\ all_glyphs_data[i] # all_glyphs_data[j]
          /\ \A m \in (j + 1)..Len(emitted_cps) : FirstDefining(emitted_cps[m]) # 1

(***************************************************************************)
(* Reading packed pixels: bit j of a byte, and the two-bit field whose low *)
(* bit is bit j; the ink decision and the 2-bit level of a coverage byte.  *)
(***************************************************************************)
BitOf(b, j) == (b \div Pow2(j)) % 2
PairOf(b, j) == (b \div Pow2(j)) % 4
Ink(v) == v \div 16 >= 2
Level(v) ==
    IF v \div 16 >= 12 THEN 3
    ELSE IF v \div 16 >= 8 THEN 2
    ELSE IF v \div 16 >= 4 THEN 1
    ELSE 0

PixelCount == pack_bitmap.width * pack_bitmap.rows

(***************************************************************************)
(* C13: in 1-bit mode pixel k = y*w + x, counted across rows, is bit       *)
(* 7 - k mod 8 of byte k div 8, dataLength is ceil(w*h/8) and no byte      *)
(* boundary is forced at a row end; a 1x1 glyph whose pixel is ink packs   *)
(* to the single byte 0x80.  Both converters.                              *)
(***************************************************************************)
OneBitLayout(packed) ==
    /\ Len(packed) = (PixelCount + 7) \div 8
    /\ \A k \in 0..(PixelCount - 1) :
          BitOf(packed[(k \div 8) + 1], 7 - (k % 8))
             = IF Ink(pack_bitmap.buffer[k + 1]) THEN 1 ELSE 0
    /\ (pack_bitmap.width = 1 /\ pack_bitmap.rows = 1 /\ Ink(pack_bitmap.buffer[1]))
          => packed = <<128>>

C13_OneBitRowMajor ==
    (pack_pc = "done" /\ ~pack_2bit) =>
       OneBitLayout(packed_fb) /\ OneBitLayout(packed_cpf)

C13_Witness ==
    /\ pack_pc = "done"
    /\ ~pack_2bit
    /\ pack_bitmap.width = 3
    /\ pack_bitmap.rows = 3
    /\ pack_bitmap.buffer = <<0, 0, 255, 100, 0, 0, 0, 0, 255>>
    /\ packed_fb = <<48, 128>>
    /\ packed_cpf = <<48, 128>>

(***************************************************************************)
(* C14: when the pixel count is not a multiple of 4 (2-bit mode) or of 8   *)
(* (1-bit mode) exactly one final partial byte is emitted, its pixels are  *)
(* left-aligned and all of its unused low-order bits are zero; when the    *)
(* pixel count is a multiple, no extra byte is emitted.  Both converters.  *)
(***************************************************************************)
FinalByte(packed) ==
    LET per == IF pack_2bit THEN 4 ELSE 8
        bits == IF pack_2bit THEN 2 ELSE 1
        full == PixelCount \div per
        rest == PixelCount % per
    IN  /\ Len(packed) = full + (IF rest # 0 THEN 1 ELSE 0)
        /\ rest # 0 =>
              /\ packed[full + 1] % Pow2(8 - bits * rest) = 0
              /\ \A j \in 0..(rest - 1) :
                    LET v == pack_bitmap.buffer[per * full + j + 1]
                    IN  IF pack_2bit
                        THEN PairOf(packed[full + 1], 6 - 2 * j) = Level(v)
                        ELSE BitOf(packed[full + 1], 7 - j) = (IF Ink(v) THEN 1 ELSE 0)

C14_FinalPartialByte ==
    pack_pc = "done" => FinalByte(packed_fb) /\ FinalByte(packed_cpf)

C14_Witness ==
    /\ pack_pc = "done"
    /\ pack_2bit
    /\ pack_bitmap.width = 3
    /\ pack_bitmap.rows = 3
    /\ pack_bitmap.buffer[9] = 255
    /\ Len(packed_fb) = 3
    /\ packed_fb[3] = 192
    /\ packed_cpf[3] = 192

(***************************************************************************)
(* C15: load_glyph(code_point) of fontconvert_bin.py returns the first     *)
(* face, in stack order, whose lookup of the code point is non-zero,       *)
(* having rendered the glyph on that face and on no other; it returns None *)
(* exactly when every face's lookup is 0.  So a face's glyph slot only     *)
(* ever holds a code point for which it is the first defining face, and    *)
(* the glyph emitted for a code point is the one of that face.             *)
(***************************************************************************)
C15_ResolverFirstFace ==
    /\ [](converter = "fb" =>
            \A j \in 1..Len(face_glyph) :
               face_glyph[j] # NoGlyph =>
                  /\ Defining(face_glyph[j]) # {}
                  /\ FirstDefining(face_glyph[j]) = j)
    /\ [][(converter = "fb" /\ pc \in {"glyphs", "metrics"}) =>
             LET code_point == IF pc = "glyphs" THEN pos[2] ELSE \h7C
             IN  IF Defining(code_point) = {}
                 THEN face_glyph' = face_glyph /\ pc' = "aborted"
                 ELSE LET k == FirstDefining(code_point)
                      IN  /\ pc' # "aborted"
                          /\ face_glyph'[k] = code_point
                          /\ \A j \in 1..Len(face_glyph) :
                                j # k => face_glyph'[j] = face_glyph[j]
                          /\ pc = "glyphs" =>
                                LET g == all_glyphs_props'[Len(all_glyphs_props')]
                                    slot == GlyphSlot(font_stack[k], code_point)
                                IN  /\ g.code_point = code_point
                                    /\ g.width = slot.width
                                    /\ g.height = slot.rows
                                    /\ g.advance_x = norm_floor(slot.advance_x)]_vars

C15_Witness ==
    /\ converter = "fb"
    /\ pc = "open"
    /\ Len(font_stack) = 2
    /\ \h41 \in font_stack[1].cmap
    /\ \h41 \in font_stack[2].cmap
    /\ face_glyph = <<\h7C, \h180>>
    /\ \E i \in 1..Len(emitted_cps) :
          emitted_cps[i] = \h41 /\ all_glyphs_props[i].width = 3

(***************************************************************************)
(* The requested intervals of a run, and the code points they contain.     *)
(***************************************************************************)
RequestedIntervals ==
    IF converter = "fb" THEN FB_intervals \o add_ints ELSE DEFAULT_INTERVALS

Requested(code_point) ==
    \E r \in 1..Len(RequestedIntervals) :
       RequestedIntervals[r][1] <= code_point /\ code_point <= RequestedIntervals[r][2]

Renderable(code_point) == Defining(code_point) # {}

NothingRenderable ==
    \A j \in 1..Len(font_stack) : \A cp \in font_stack[j].cmap : ~Requested(cp)

ScanHasRun == pc \notin {"start", "merge", "scan"}

(***************************************************************************)
(* C16: no coverage interval of fontconvert_bin.py is empty: first <= last *)
(* for every emitted interval, whatever --additional-intervals are given.  *)
(***************************************************************************)
C16_NoEmptyInterval ==
    converter = "fb" =>
       \A i \in 1..Len(intervals) : intervals[i][1] <= intervals[i][2]

(***************************************************************************)
(* C17: a requested interval without renderable code points is not fatal:  *)
(* coverage holds only renderable code points and the run continues, even  *)
(* when every requested interval is unrenderable; both converters.         *)
(***************************************************************************)
C17_UnrenderableIsNotFatal ==
    /\ \A i \in 1..Len(intervals) :
          \A cp \in intervals[i][1] .. intervals[i][2] : Renderable(cp)
    /\ NothingRenderable => pc # "aborted"

(***************************************************************************)
(* C18: without a bit-depth option on the command line the bundle is       *)
(* 2-bit: the header flag is 1 and every glyph is packed 4 pixels to the   *)
(* byte; both converters.                                                  *)
(***************************************************************************)
C18_DefaultIsTwoBit ==
    ~opt_flag =>
       /\ pc # "start" => is2Bit
       /\ \A i \in 1..Len(all_glyphs_props) :
             all_glyphs_props[i].data_length =
                (all_glyphs_props[i].width * all_glyphs_props[i].height + 3) \div 4
       /\ pc = "done" => U8At(output, 13) = 1

(***************************************************************************)
(* C19: the merge of fontconvert_bin.py merges every request that starts   *)
(* at or before previous.end + 1 into the previous one, so the merged      *)
(* requests are ascending, disjoint and never touch.                       *)
(***************************************************************************)
C19_MergeJoinsTouching ==
    (converter = "fb" /\ pc \notin {"start", "merge"}) =>
       \A i \in 2..Len(unvalidated_intervals) :
          unvalidated_intervals[i][1] > unvalidated_intervals[i - 1][2] + 1

(***************************************************************************)
(* C20: every coverage interval is a maximal run of renderable code        *)
(* points: the code point before its first and the one after its last is   *)
(* undefined or not requested, and no two intervals are adjacent.          *)
(***************************************************************************)
C20_IntervalsAreMaximalRuns ==
    ScanHasRun =>
       /\ \A i \in 1..Len(intervals) :
             /\ ~(Renderable(intervals[i][1] - 1) /\ Requested(intervals[i][1] - 1))
             /\ ~(Renderable(intervals[i][2] + 1) /\ Requested(intervals[i][2] + 1))
       /\ \A i \in 2..Len(intervals) :
             intervals[i][1] # intervals[i - 1][2] + 1

(***************************************************************************)
(* C21: the rasterizer addresses source pixel (x, y) at byte               *)
(* y * pitch + x, with pitch taken from the bitmap: for a bitmap whose     *)
(* pitch is larger than its width the packed output is the one of the same *)
(* pixels stored with pitch equal to width, so pixel k = y*w + x lands in  *)
(* its bit or bit pair and no alignment byte reaches the output.           *)
(***************************************************************************)
PitchPixel(x, y) == pack_bitmap.buffer[y * pack_bitmap.pitch + x + 1]

PitchLayout(packed) ==
    LET per == IF pack_2bit THEN 4 ELSE 8
    IN  /\ Len(packed) = (PixelCount + per - 1) \div per
        /\ \A y \in 0..(pack_bitmap.rows - 1) :
              \A x \in 0..(pack_bitmap.width - 1) :
                 LET k == y * pack_bitmap.width + x
                     v == PitchPixel(x, y)
                 IN  IF pack_2bit
                     THEN PairOf(packed[(k \div 4) + 1], 6 - 2 * (k % 4)) = Level(v)
                     ELSE BitOf(packed[(k \div 8) + 1], 7 - (k % 8))
                             = (IF Ink(v) THEN 1 ELSE 0)

C21_PitchFromSource ==
    (pack_pc = "done" /\ pack_bitmap.pitch > pack_bitmap.width) =>
       PitchLayout(packed_fb) /\ PitchLayout(packed_cpf)

(***************************************************************************)
(* The 4-bit intermediate each packer builds from a bitmap (the list       *)
(* pixels4g of the scripts), and the layout it is read by.                 *)
(***************************************************************************)
R2_pixels4g(bitmap) ==
    R2_P4gLoop([px |-> 0, out |-> <<>>], 0, Len(bitmap.buffer) - 1,
               bitmap.buffer, bitmap.width).out

R1_pixels4g(bitmap) ==
    R1_P4gLoop([px |-> 0, out |-> <<>>], 0, Len(bitmap.buffer) - 1,
               bitmap.buffer, bitmap.width).out

\* intermediate bytes per row
Stride == (pack_bitmap.width + 1) \div 2

\* top 4 bits of pixel (x, y); 0 for the missing partner of a last odd column
Nibble(x, y) ==
    IF x < pack_bitmap.width
    THEN pack_bitmap.buffer[y * pack_bitmap.width + x + 1] \div 16
    ELSE 0

\* every byte c of every row y holds pixel 2c in one nibble and pixel 2c + 1
\* in the other; evenHigh says which
NibbleLayout(p4, evenHigh) ==
    /\ Len(p4) = pack_bitmap.rows * Stride
    /\ \A y \in 0..(pack_bitmap.rows - 1) :
          \A c \in 0..(Stride - 1) :
             LET b == p4[y * Stride + c + 1]
             IN  IF evenHigh
                 THEN b \div 16 = Nibble(2 * c, y) /\ b % 16 = Nibble(2 * c + 1, y)
                 ELSE b % 16 = Nibble(2 * c, y) /\ b \div 16 = Nibble(2 * c + 1, y)

(***************************************************************************)
(* C22: each byte of the 4-bit intermediate holds two horizontally         *)
(* adjacent pixels of one row, the even-indexed pixel's top 4 bits in the  *)
(* high nibble and the odd-indexed pixel's in the low nibble; for an odd   *)
(* width the last pixel of each row is stored alone with the partner       *)
(* nibble zero and the next row starts a new byte.                         *)
(***************************************************************************)
C22_EvenPixelHighNibble ==
    pack_pc = "done" =>
       /\ NibbleLayout(FB_pixels4g(pack_bitmap), TRUE)
       /\ NibbleLayout(R2_pixels4g(pack_bitmap), TRUE)
       /\ NibbleLayout(R1_pixels4g(pack_bitmap), TRUE)

(***************************************************************************)
(* The level or bit a packed sequence holds for pixel k, counted across    *)
(* rows.                                                                   *)
(***************************************************************************)
Emitted2(packed, k) == PairOf(packed[(k \div 4) + 1], 6 - 2 * (k % 4))
Emitted1(packed, k) == BitOf(packed[(k \div 8) + 1], 7 - (k % 8))

\* bitmaps of up to this many pixels have every other pixel replaced in turn
MaxSwapPixels == 3

\* the bitmap with pixel k replaced by coverage v
WithPixel(bitmap, k, v) == [bitmap EXCEPT !.buffer[k + 1] = v]

(***************************************************************************)
(* C23: in 2-bit mode pixel k = y*w + x, counted across rows, is the bit   *)
(* pair at bits 7 - 2(k mod 4) and 6 - 2(k mod 4) of byte k div 4; a byte  *)
(* is flushed after every 4th pixel whatever the row, and dataLength is    *)
(* ceil(w*h/4).  Both converters.                                          *)
(***************************************************************************)
TwoBitLayout(packed) ==
    /\ Len(packed) = (PixelCount + 3) \div 4
    /\ \A k \in 0..(PixelCount - 1) :
          LET l == Level(pack_bitmap.buffer[k + 1])
              b == packed[(k \div 4) + 1]
          IN  /\ BitOf(b, 7 - 2 * (k % 4)) = l \div 2
              /\ BitOf(b, 6 - 2 * (k % 4)) = l % 2

C23_TwoBitRowMajor ==
    (pack_pc = "done" /\ pack_2bit) =>
       TwoBitLayout(packed_fb) /\ TwoBitLayout(packed_cpf)

C23_Witness ==
    /\ pack_pc = "done"
    /\ pack_2bit
    /\ pack_bitmap.width = 3
    /\ pack_bitmap.rows = 3
    /\ pack_bitmap.buffer = <<0, 0, 255, 100, 0, 0, 0, 0, 255>>
    /\ packed_fb = <<13, 0, 192>>
    /\ packed_cpf = <<13, 0, 192>>

(***************************************************************************)
(* C24: the 2-bit level of a pixel is determined by the pixel's own nibble *)
(* n (the top 4 bits of its coverage byte) and by nothing else: 3 if       *)
(* n >= 12, 2 if 8 <= n < 12, 1 if 4 <= n < 8, 0 if n < 4, in even and odd *)
(* columns alike; replacing any other pixel of the bitmap leaves it as it  *)
(* is.                                                                     *)
(***************************************************************************)
NibbleLevel(n) ==
    IF n >= 12 THEN 3
    ELSE IF 8 <= n /\ n < 12 THEN 2
    ELSE IF 4 <= n /\ n < 8 THEN 1
    ELSE 0

OwnNibbleLevel(packed) ==
    \A k \in 0..(PixelCount - 1) :
       Emitted2(packed, k) = NibbleLevel(pack_bitmap.buffer[k + 1] \div 16)

LevelIgnoresOthers ==
    \A k \in 0..(PixelCount - 1) :
       \A j \in (0..(PixelCount - 1)) \ {k} :
          \A v \in PackLevels :
             /\ Emitted2(FB_packed(WithPixel(pack_bitmap, j, v), TRUE), k)
                   = Emitted2(packed_fb, k)
             /\ Emitted2(rasterize_glyph_2bit(WithPixel(pack_bitmap, j, v)), k)
                   = Emitted2(packed_cpf, k)

C24_LevelFromOwnNibble ==
    (pack_pc = "done" /\ pack_2bit) =>
       /\ OwnNibbleLevel(packed_fb)
       /\ OwnNibbleLevel(packed_cpf)
       /\ PixelCount <= MaxSwapPixels => LevelIgnoresOthers

C24_Witness ==
    /\ pack_pc = "done"
    /\ pack_2bit
    /\ pack_bitmap.width = 2
    /\ pack_bitmap.rows = 1
    /\ pack_bitmap.buffer = <<255, 191>>
    /\ packed_fb = <<224>>
    /\ packed_cpf = <<224>>

(***************************************************************************)
(* C25: in 1-bit mode a pixel's bit is 1 exactly when one of the top 3     *)
(* bits of the pixel's own nibble is set (nibble >= 2, coverage >= 32),    *)
(* whatever the pixel sharing its intermediate byte holds, in even and odd *)
(* columns alike.                                                          *)
(***************************************************************************)
OwnNibbleInk(packed) ==
    \A k \in 0..(PixelCount - 1) :
       LET v == pack_bitmap.buffer[k + 1]
           n == v \div 16
       IN  /\ Emitted1(packed, k) = 1 <=> (n \div 2) % 8 # 0
           /\ Emitted1(packed, k) = 1 <=> n >= 2
           /\ Emitted1(packed, k) = 1 <=> v >= 32

InkIgnoresOthers ==
    \A k \in 0..(PixelCount - 1) :
       \A j \in (0..(PixelCount - 1)) \ {k} :
          \A v \in PackLevels :
             /\ Emitted1(FB_packed(WithPixel(pack_bitmap, j, v), FALSE), k)
                   = Emitted1(packed_fb, k)
             /\ Emitted1(rasterize_glyph_1bit(WithPixel(pack_bitmap, j, v)), k)
                   = Emitted1(packed_cpf, k)

C25_InkFromOwnNibble ==
    (pack_pc = "done" /\ ~pack_2bit) =>
       /\ OwnNibbleInk(packed_fb)
       /\ OwnNibbleInk(packed_cpf)
       /\ PixelCount <= MaxSwapPixels => InkIgnoresOthers

C25_Witness ==
    /\ pack_pc = "done"
    /\ ~pack_2bit
    /\ pack_bitmap.width = 2
    /\ pack_bitmap.rows = 1
    /\ pack_bitmap.buffer = <<255, 31>>
    /\ packed_fb = <<128>>
    /\ packed_cpf = <<128>>

(***************************************************************************)
(* C27: the two stages of the 2-bit quantization (top 4 bits, then the     *)
(* thresholds 12, 8, 4) give the top two bits of the coverage byte: for    *)
(* every coverage value v in 0..255 and every pixel position the emitted   *)
(* level is v div 64.  Both converters.                                    *)
(***************************************************************************)
TopTwoBits(packed) ==
    \A k \in 0..(PixelCount - 1) :
       Emitted2(packed, k) = pack_bitmap.buffer[k + 1] \div 64

C27_LevelIsTopTwoBits ==
    (pack_pc = "done" /\ pack_2bit) =>
       TopTwoBits(packed_fb) /\ TopTwoBits(packed_cpf)

C27_Witness ==
    /\ pack_pc = "done"
    /\ pack_2bit
    /\ pack_bitmap.width = 2
    /\ pack_bitmap.rows = 1
    /\ pack_bitmap.buffer = <<0, 127>>
    /\ packed_fb = <<16>>
    /\ packed_cpf = <<16>>

(***************************************************************************)
(* C28: the two converters agree on glyph packing: for every bitmap        *)
(* (width, rows, coverage buffer of width*rows bytes) and each bit depth,  *)
(* the inline packing of fontconvert_bin.py gives the same bytes as        *)
(* rasterize_glyph_2bit / rasterize_glyph_1bit of cpf_convert.py.          *)
(***************************************************************************)
C28_PackersAgree ==
    (pack_pc = "done" /\ Len(pack_bitmap.buffer) = PixelCount) =>
       packed_fb = packed_cpf

C28_Witness ==
    /\ pack_pc = "done"
    /\ pack_2bit
    /\ pack_bitmap.width = 3
    /\ pack_bitmap.rows = 1
    /\ pack_bitmap.buffer = <<255, 100, 255>>
    /\ packed_fb = <<220>>
    /\ packed_cpf = packed_fb

(***************************************************************************)
(* C30: for a bitmap whose buffer has exactly width*rows bytes the 4-bit   *)
(* intermediate has exactly rows * ceil(width/2) entries, so every read    *)
(* pixels4g[y * pitch + x div 2] of the packing loops is within it; a      *)
(* bitmap of width 0 or of 0 rows gives an empty intermediate and an empty *)
(* packed sequence.                                                        *)
(***************************************************************************)
IntermediateFits(p4) ==
    /\ Len(p4) = pack_bitmap.rows * Stride
    /\ \A y \in 0..(pack_bitmap.rows - 1) :
          \A x \in 0..(pack_bitmap.width - 1) :
             (y * Stride + (x \div 2) + 1) \in DOMAIN p4
    /\ (pack_bitmap.width = 0 \/ pack_bitmap.rows = 0) => p4 = <<>>

C30_IntermediateInBounds ==
    (pack_pc = "done" /\ Len(pack_bitmap.buffer) = PixelCount) =>
       /\ IntermediateFits(FB_pixels4g(pack_bitmap))
       /\ IntermediateFits(R2_pixels4g(pack_bitmap))
       /\ IntermediateFits(R1_pixels4g(pack_bitmap))
       /\ (pack_bitmap.width = 0 \/ pack_bitmap.rows = 0) =>
              packed_fb = <<>> /\ packed_cpf = <<>>

C30_Witness ==
    /\ pack_pc = "done"
    /\ pack_bitmap.width = 3
    /\ pack_bitmap.rows = 3
    /\ Len(pack_bitmap.buffer) = 9
    /\ Len(FB_pixels4g(pack_bitmap)) = 6
    /\ Len(R1_pixels4g(pack_bitmap)) = 6

(***************************************************************************)
(* C26: metrics are rounded from 26.6 fixed point to integers: advanceX    *)
(* and descender are floor(v/64), so -65 gives -2; advanceY and ascender   *)
(* are ceil(v/64); an exact multiple of 64 is divided by 64 by either.     *)
(***************************************************************************)
IsFloor64(q, v) == 64 * q <= v /\ v < 64 * (q + 1)
IsCeil64(q, v) == 64 * (q - 1) < v /\ v <= 64 * q

C26_MetricRounding ==
    round_pc = "done" =>
       /\ IsFloor64(round_out.fb_advance_x, round_val)
       /\ IsFloor64(round_out.cpf_advance_x, round_val)
       /\ IsFloor64(round_out.line.descender, round_val)
       /\ IsCeil64(round_out.line.advance_y, round_val)
       /\ IsCeil64(round_out.line.ascender, round_val)
       /\ round_val = -65 => round_out.line.descender = -2
       /\ round_val % 64 = 0 =>
              /\ 64 * round_out.fb_advance_x = round_val
              /\ 64 * round_out.line.descender = round_val
              /\ 64 * round_out.line.advance_y = round_val
              /\ 64 * round_out.line.ascender = round_val

C26_Witness ==
    /\ round_pc = "done"
    /\ round_val = -65
    /\ round_out.fb_advance_x = -2
    /\ round_out.line.descender = -2
    /\ round_out.line.ascender = -1
    /\ round_out.line.advance_y = -1

(***************************************************************************)
(* C29: the merge of fontconvert_bin.py neither adds nor drops a code      *)
(* point: for every list of requested intervals with first <= last the     *)
(* union of the merged intervals is the union of the requested ones, and   *)
(* merging an already merged list returns it unchanged.                    *)
(***************************************************************************)
C29_MergeKeepsCodePoints ==
    /\ merge_pc \in {"merged", "done"} => Covered(merge_out) = Covered(merge_req)
    /\ merge_pc = "done" => merge_again = merge_out

C29_Witness ==
    /\ merge_pc = "done"
    /\ merge_req = << <<2, 3>>, <<0, 2>>, <<1, 1>> >>
    /\ merge_out = << <<0, 2>>, <<2, 3>> >>
    /\ merge_again = merge_out

====
